---- MODULE Spec2Model ----
(***************************************************************************)
(* Model of update_kaggle_metadata.py: the author-line parser              *)
(* (parse_author_affil and the functions it calls), tex2utf, merge_files,  *)
(* check_merged_then_overwrite_original and the download of the updates.   *)
(*                                                                         *)
(* A Python str is modelled as a sequence of one-character strings, a list *)
(* as a sequence, a dict as a function from its keys.  Every regular       *)
(* expression of the source is modelled by an operator that matches        *)
(* character by character, with the leftmost / greedy choice Python's re   *)
(* makes.                                                                  *)
(***************************************************************************)
EXTENDS Integers, Sequences, FiniteSets, TLC

VARIABLES
    pc,           \* position in the pipeline
    authors,      \* the author line (parameter of parse_author_affil)
    blocks,       \* split_authors: blocks
    listx,        \* split_authors: listx
    parts,        \* split_authors: parts (its return value)
    names,        \* _parse_author_affil_split: names
    author_list,  \* author_list (built by the split, then back-propagated)
    back_prop,    \* back_propagate_affiliations_to / back_prop
    enumaffils,   \* _enum_collaboration_at_end's dict
    split_list,   \* author_list as returned by _parse_author_affil_split
    x,            \* loop index of _parse_author_affil_back_propagate (0-based)
    last_affil    \* last_affil of _parse_author_affil_back_propagate

VARIABLES
    tex,          \* tex2utf: its parameter tex
    greek,        \* tex2utf: its parameter greek
    utf,          \* tex2utf: utf
    iters         \* turns of the double-brace loop of tex2utf taken so far

VARIABLES
    json_file,            \* the lines of args.json_file
    tmp_sorted_file,      \* the lines of args.tmp_sorted_file
    tmp_merged_file,      \* the lines of args.tmp_merged_file
    json_pos,             \* lines of json_file read so far
    sorted_pos,           \* lines of tmp_sorted_file read so far
    json_string,          \* merge_files: json_string
    tmp_sorted_string,    \* merge_files: tmp_sorted_string
    json_paper_id,        \* merge_files: json_paper_id
    tmp_sorted_paper_id,  \* merge_files: tmp_sorted_paper_id
    moved                 \* move(args.tmp_merged_file, args.json_file) was called

VARIABLES
    resumption_token,  \* args.resumption_token
    rt,                \* download_updates: rt
    response,          \* get_listrecord_chunk: response
    xml,               \* download_updates: xml
    tmp_updates_file,  \* the lines of args.tmp_updates_file
    chunk_index,       \* download_updates: chunk_index
    sent,              \* the resumption tokens of the requests made so far
    received,          \* the bodies of the 200 responses so far
    slept,             \* the time.sleep() calls so far, in half seconds
    exception          \* the exception that ended the run, if any

authorVars == <<pc, authors, blocks, listx, parts, names, author_list, back_prop,
                enumaffils, split_list, x, last_affil>>

texVars == <<tex, greek, utf, iters>>

mergeVars == <<json_file, tmp_sorted_file, tmp_merged_file, json_pos, sorted_pos,
               json_string, tmp_sorted_string, json_paper_id,
               tmp_sorted_paper_id, moved>>

oaiVars == <<resumption_token, rt, response, xml, tmp_updates_file, chunk_index,
             sent, received, slept, exception>>

vars == <<authorVars, texVars, mergeVars, oaiVars>>

\* Python's None
None == <<>>

\* tex2utf has not been called
TexIdle == tex = <<>> /\ greek = TRUE /\ utf = <<>> /\ iters = 0

\* no file of the merge has been opened
MergeIdle ==
    /\ json_file = <<>> /\ tmp_sorted_file = <<>> /\ tmp_merged_file = <<>>
    /\ json_pos = 0 /\ sorted_pos = 0
    /\ json_string = <<>> /\ tmp_sorted_string = <<>>
    /\ json_paper_id = <<>> /\ tmp_sorted_paper_id = <<>>
    /\ moved = FALSE

\* no request has been made
OaiIdle ==
    /\ resumption_token = None /\ rt = None /\ response = None /\ xml = None
    /\ tmp_updates_file = <<>> /\ chunk_index = 0
    /\ sent = <<>> /\ received = <<>> /\ slept = <<>> /\ exception = None

-----------------------------------------------------------------------------
(* Characters and character classes of Python's re                         *)

LowerSeq == <<"a","b","c","d","e","f","g","h","i","j","k","l","m",
              "n","o","p","q","r","s","t","u","v","w","x","y","z">>

UpperSeq == <<"A","B","C","D","E","F","G","H","I","J","K","L","M",
              "N","O","P","Q","R","S","T","U","V","W","X","Y","Z">>

DigitSet == {"0","1","2","3","4","5","6","7","8","9"}

LowerSet == {LowerSeq[i] : i \in 1..26}

UpperSet == {UpperSeq[i] : i \in 1..26}

\* \s
IsSpace(c) == c \in {" ", "\t", "\n"}

\* a letter, as str.isalpha() on ASCII
IsLetter(c) == c \in LowerSet \/ c \in UpperSet

\* re.IGNORECASE compares characters after case folding
Fold(c) == IF c \in UpperSet
           THEN LowerSeq[CHOOSE i \in 1..26 : UpperSeq[i] = c]
           ELSE c

FoldStr(s) == [i \in 1..Len(s) |-> Fold(s[i])]

\* s[i:] of Python, with 1-based i
From(s, i) == SubSeq(s, i, Len(s))

\* the literal w occurs in s at position i
At(s, i, w) == /\ i >= 1
               /\ i + Len(w) - 1 <= Len(s)
               /\ SubSeq(s, i, i + Len(w) - 1) = w

\* the same under re.IGNORECASE (w is given in lower case)
AtCI(s, i, w) == /\ i >= 1
                 /\ i + Len(w) - 1 <= Len(s)
                 /\ FoldStr(SubSeq(s, i, i + Len(w) - 1)) = w

\* first position >= i of s holding no whitespace (Len(s)+1 if none): \s*
RECURSIVE SkipSpace(_, _)
SkipSpace(s, i) == IF i <= Len(s) /\ IsSpace(s[i]) THEN SkipSpace(s, i + 1) ELSE i

\* str.lstrip() / str.rstrip() / both
RECURSIVE lstrip(_)
lstrip(s) == IF s # <<>> /\ IsSpace(s[1]) THEN lstrip(Tail(s)) ELSE s

RECURSIVE rstrip(_)
rstrip(s) == IF s # <<>> /\ IsSpace(s[Len(s)])
             THEN rstrip(SubSeq(s, 1, Len(s) - 1)) ELSE s

strip(s) == lstrip(rstrip(s))

\* ''.join(list)
RECURSIVE Concat(_)
Concat(ss) == IF ss = <<>> THEN <<>> ELSE ss[1] \o Concat(Tail(ss))

\* re.sub(r'\s+', ' ', s)
RECURSIVE CollapseSpace(_)
CollapseSpace(s) ==
    IF s = <<>> THEN <<>>
    ELSE IF IsSpace(s[1])
         THEN <<" ">> \o CollapseSpace(From(s, SkipSpace(s, 1)))
         ELSE <<s[1]>> \o CollapseSpace(Tail(s))

-----------------------------------------------------------------------------
(* split_authors                                                           *)

\* aus = re.split(r'(\(|\))', authors) without its empty strings: the runs
\* of characters between parentheses, and each parenthesis on its own
RECURSIVE AusAcc(_, _)
AusAcc(s, cur) ==
    LET flush == IF cur = <<>> THEN <<>> ELSE <<cur>>
    IN  IF s = <<>> THEN flush
        ELSE IF s[1] \in {"(", ")"}
             THEN flush \o << <<s[1]>> >> \o AusAcc(Tail(s), <<>>)
             ELSE AusAcc(Tail(s), Append(cur, s[1]))

Aus(s) == AusAcc(s, <<>>)

\* the loop without its final 'if c: blocks.append(c)'
RECURSIVE BlockLoopDropTail(_, _, _, _)
BlockLoopDropTail(aus, bl, c, depth) ==
    IF aus = <<>>
    THEN bl
    ELSE LET bit  == aus[1]
             rest == Tail(aus)
         IN  IF bit = <<"(">>
             THEN IF depth + 1 = 1
                  THEN BlockLoopDropTail(rest, Append(bl, c), <<"(">>, depth + 1)
                  ELSE BlockLoopDropTail(rest, bl, c \o bit, depth + 1)
             ELSE IF bit = <<")">>
             THEN IF depth - 1 = 0
                  THEN BlockLoopDropTail(rest, Append(bl, c \o bit), <<>>, depth - 1)
                  ELSE BlockLoopDropTail(rest, bl, c \o bit, depth - 1)
             ELSE BlockLoopDropTail(rest, bl, c \o bit, depth)

\* the loop over aus with its accumulator c and the depth counter
RECURSIVE BlockLoop(_, _, _, _)
BlockLoop(aus, bl, c, depth) ==
    IF aus = <<>>
    THEN IF c # <<>> THEN Append(bl, c) ELSE bl
    ELSE LET bit  == aus[1]
             rest == Tail(aus)
         IN  IF bit = <<"(">>
             THEN IF depth + 1 = 1
                  THEN BlockLoop(rest, Append(bl, c), <<"(">>, depth + 1)
                  ELSE BlockLoop(rest, bl, c \o bit, depth + 1)
             ELSE IF bit = <<")">>
             THEN IF depth - 1 = 0
                  THEN BlockLoop(rest, Append(bl, c \o bit), <<>>, depth - 1)
                  ELSE BlockLoop(rest, bl, c \o bit, depth - 1)
             ELSE BlockLoop(rest, bl, c \o bit, depth)

\* blocks of split_authors
Blocks(s) == IF Len(Aus(s)) = 1 THEN <<s>> ELSE BlockLoop(Aus(s), <<>>, <<>>, 0)

\* where a match of  ,?\s+(and|\&)\s  that starts at i ends (the index after
\* it), or 0 when there is none
ConnectiveEnd(s, i) ==
    LET j == IF i <= Len(s) /\ s[i] = "," THEN i + 1 ELSE i
        k == SkipSpace(s, j)
    IN  IF k = j THEN 0
        ELSE IF At(s, k, <<"a","n","d">>) /\ k + 3 <= Len(s) /\ IsSpace(s[k + 3])
             THEN k + 4
        ELSE IF At(s, k, <<"&">>) /\ k + 1 <= Len(s) /\ IsSpace(s[k + 1])
             THEN k + 2
        ELSE 0

\* re.sub(r',?\s+(and|\&)\s', ',', block)
RECURSIVE AndSub(_, _)
AndSub(s, i) ==
    IF i > Len(s) THEN <<>>
    ELSE IF ConnectiveEnd(s, i) # 0
         THEN <<",">> \o AndSub(s, ConnectiveEnd(s, i))
         ELSE <<s[i]>> \o AndSub(s, i + 1)

\* SplitSep without the capturing group: re.split(r',|:\s*', block) keeps no
\* separator
RECURSIVE SplitSepNoCapture(_, _)
SplitSepNoCapture(s, cur) ==
    IF s = <<>> THEN <<cur>>
    ELSE IF s[1] \in {",", ":"}
         THEN <<cur>> \o SplitSepNoCapture(From(s, SkipSpace(s, 2)), <<>>)
         ELSE SplitSepNoCapture(Tail(s), Append(cur, s[1]))

\* re.split(r'(,|:)\s*', block): the texts and the separators between them
RECURSIVE SplitSep(_, _)
SplitSep(s, cur) ==
    IF s = <<>> THEN <<cur>>
    ELSE IF s[1] \in {",", ":"}
         THEN <<cur, <<s[1]>> >> \o SplitSep(From(s, SkipSpace(s, 2)), <<>>)
         ELSE SplitSep(Tail(s), Append(cur, s[1]))

\* the inner loop over names: strip each, leave the empty ones out
RECURSIVE StripNonEmpty(_)
StripNonEmpty(ns) ==
    IF ns = <<>> THEN <<>>
    ELSE IF strip(ns[1]) = <<>> THEN StripNonEmpty(Tail(ns))
         ELSE <<strip(ns[1])>> \o StripNonEmpty(Tail(ns))

\* what one block adds to listx
BlockTokens(block) ==
    LET b == CollapseSpace(block)
    IN  IF b # <<>> /\ b[1] = "("
        THEN <<b>>
        ELSE StripNonEmpty(SplitSep(AndSub(b, 1), <<>>))

RECURSIVE ListX(_)
ListX(bl) == IF bl = <<>> THEN <<>> ELSE BlockTokens(bl[1]) \o ListX(Tail(bl))

\* re.match(r'^(Jr\.?|Sr\.?\[IV]{2,})$', p): Jr, Jr., or Sr / Sr. followed
\* by the literal text [IV and two or more ]
SuffixMatch(p) ==
    \/ p = <<"J","r">>
    \/ p = <<"J","r",".">>
    \/ LET k == IF At(p, 3, <<".">>) THEN 4 ELSE 3
       IN  /\ At(p, 1, <<"S","r">>)
           /\ At(p, k, <<"[","I","V">>)
           /\ Len(p) >= k + 4
           /\ \A i \in (k + 3)..Len(p) : p[i] = "]"

\* re.match(r'\)$', s): the pattern is anchored at the start by match()
ClosedMatch(s) == s = <<")">> \/ s = <<")", "\n">>

\* the recombination loop
RECURSIVE Recombine(_, _)
Recombine(lx, ps) ==
    IF lx = <<>> THEN ps
    ELSE LET p == lx[1]
             n == Len(ps)
         IN  IF /\ SuffixMatch(p)
                /\ n >= 2
                /\ ps[n] = <<",">>
                /\ ~ClosedMatch(ps[n - 1])
             THEN Recombine(Tail(lx),
                            Append(SubSeq(ps, 1, n - 2),
                                   ps[n - 1] \o ps[n] \o <<" ">> \o p))
             ELSE Recombine(Tail(lx), Append(ps, p))

split_authors(s) == IF s = <<>> THEN <<>> ELSE Recombine(ListX(Blocks(s)), <<>>)

-----------------------------------------------------------------------------
(* _parse_author_affil_split: the clean-up of the token list               *)

RECURSIVE RemoveDoubleCommas(_, _)
RemoveDoubleCommas(items, last) ==
    IF items = <<>> THEN <<>>
    ELSE IF items[1] = <<",">> /\ last = <<",">>
         THEN RemoveDoubleCommas(Tail(items), last)
         ELSE <<items[1]>> \o RemoveDoubleCommas(Tail(items), items[1])

_remove_double_commas(items) == RemoveDoubleCommas(items, <<>>)

\* list(dropwhile(lambda x: x == ',', l))
RECURSIVE DropCommas(_)
DropCommas(l) == IF l # <<>> /\ l[1] = <<",">> THEN DropCommas(Tail(l)) ELSE l

\* the same from the back (reversed, dropwhile, reversed)
RECURSIVE DropCommasBack(_)
DropCommasBack(l) ==
    IF l # <<>> /\ l[Len(l)] = <<",">>
    THEN DropCommasBack(SubSeq(l, 1, Len(l) - 1)) ELSE l

\* re.match('^[^](,]', x)
IsNamePart(t) == t # <<>> /\ t[1] \notin {"]", "(", ","}

\* re.sub(r'\s\s+', ' ', name)
RECURSIVE CollapseDouble(_)
CollapseDouble(s) ==
    IF s = <<>> THEN <<>>
    ELSE IF IsSpace(s[1]) /\ SkipSpace(s, 1) > 2
         THEN <<" ">> \o CollapseDouble(From(s, SkipSpace(s, 1)))
         ELSE <<s[1]>> \o CollapseDouble(Tail(s))

\* re.sub(r'(?<!\\)\.(\S)', r'. \g<1>', name): a match takes the dot and the
\* character after it, so the scan goes on two characters further
RECURSIVE DotSpace(_, _)
DotSpace(s, i) ==
    IF i > Len(s) THEN <<>>
    ELSE IF /\ s[i] = "."
            /\ (i = 1 \/ s[i - 1] # "\\")
            /\ i + 1 <= Len(s)
            /\ ~IsSpace(s[i + 1])
         THEN <<".", " ", s[i + 1]>> \o DotSpace(s, i + 2)
         ELSE <<s[i]>> \o DotSpace(s, i + 1)

_tidy_name(name) == DotSpace(CollapseDouble(name), 1)

\* re.match(r'^\s*et\.?\s+al\.?\s*', n, flags=re.IGNORECASE)
IsEtAl(n) ==
    LET i == SkipSpace(n, 1)
        j == IF At(n, i + 2, <<".">>) THEN i + 3 ELSE i + 2
        k == SkipSpace(n, j)
    IN  /\ AtCI(n, i, <<"e","t">>)
        /\ k > j
        /\ AtCI(n, k, <<"a","l">>)

\* FilterTidy without the filter of line 446: 'et al' stays a name
RECURSIVE FilterTidyKeepEtAl(_)
FilterTidyKeepEtAl(l) ==
    IF l = <<>> THEN <<>>
    ELSE IF IsNamePart(l[1])
         THEN <<_tidy_name(l[1])>> \o FilterTidyKeepEtAl(Tail(l))
         ELSE FilterTidyKeepEtAl(Tail(l))

\* lines 444-447: the name parts, tidied, without the 'et al'
RECURSIVE FilterTidy(_)
FilterTidy(l) ==
    IF l = <<>> THEN <<>>
    ELSE IF IsNamePart(l[1]) /\ ~IsEtAl(_tidy_name(l[1]))
         THEN <<_tidy_name(l[1])>> \o FilterTidy(Tail(l))
         ELSE FilterTidy(Tail(l))

\* lines 436-447: names before the collaboration step
CleanNames(ps) == FilterTidy(DropCommas(DropCommasBack(_remove_double_commas(ps))))

-----------------------------------------------------------------------------
(* _collaboration_at_start                                                 *)

CollabWords == { <<"c","o","l","l","a","b","o","r","a","t","i","o","n">>,
                 <<"g","r","o","u","p">>,
                 <<"t","e","a","m">> }

\* [a-z0-9\s] under re.IGNORECASE
IsCollabChar(c) == IsLetter(c) \/ c \in DigitSet \/ IsSpace(c)

\* first position >= i of s that is not in [a-z0-9\s]
RECURSIVE CollabRunEnd(_, _)
CollabRunEnd(s, i) ==
    IF i <= Len(s) /\ IsCollabChar(s[i]) THEN CollabRunEnd(s, i + 1) ELSE i

\* the positions m at which a match of [a-z0-9\s]+\s+(collaboration|group|team)
\* that starts at i can have its keyword: at least one character of the
\* class and then whitespace before it, all inside the run that starts at i
CollabKeywordAt(s, i) ==
    { m \in (i + 2)..(CollabRunEnd(s, i) - 1) :
        /\ IsSpace(s[m - 1])
        /\ \E w \in CollabWords : AtCI(s, m, w) }

\* the index after the match that starts at i (greedy: the last keyword), or 0
CollabEnd(s, i) ==
    LET ms == CollabKeywordAt(s, i)
    IN  IF ms = {} THEN 0
        ELSE LET m == CHOOSE a \in ms : \A b \in ms : b <= a
                 w == CHOOSE v \in CollabWords : AtCI(s, m, v)
             IN  m + Len(w)

\* m.group(1) of re.search(...), or <<>> when there is no match
CollabPhrase(s) ==
    LET starts == { i \in 1..Len(s) : CollabEnd(s, i) # 0 }
    IN  IF starts = {} THEN <<>>
        ELSE LET i == CHOOSE a \in starts : \A b \in starts : a <= b
             IN  SubSeq(s, i, CollabEnd(s, i) - 1)

\* CollabLoop that does not stop at a name: it takes the collaboration
\* names wherever they stand in the list
RECURSIVE CollabLoopAnywhere(_, _, _)
CollabLoopAnywhere(ns, al, n) ==
    IF ns = <<>>
    THEN [names |-> ns, author_list |-> al, back_prop |-> n]
    ELSE IF CollabPhrase(ns[1]) = <<>>
    THEN LET r == CollabLoopAnywhere(Tail(ns), al, n)
         IN  [names |-> <<ns[1]>> \o r.names, author_list |-> r.author_list,
              back_prop |-> r.back_prop]
    ELSE LET rest == Tail(ns)
             al2  == Append(al, <<CollabPhrase(ns[1]), <<>>, <<>> >>)
         IN  IF rest # <<>> /\ (rest[1] = <<",">> \/ rest[1] = <<":">>)
             THEN CollabLoopAnywhere(Tail(rest), al2, n + 1)
             ELSE CollabLoopAnywhere(rest, al2, n + 1)

\* the while loop: [names, author_list, back_propagate_affiliations_to]
RECURSIVE CollabLoop(_, _, _)
CollabLoop(ns, al, n) ==
    IF ns = <<>> \/ CollabPhrase(ns[1]) = <<>>
    THEN [names |-> ns, author_list |-> al, back_prop |-> n]
    ELSE LET rest == Tail(ns)
             al2  == Append(al, <<CollabPhrase(ns[1]), <<>>, <<>> >>)
         IN  IF rest # <<>> /\ (rest[1] = <<",">> \/ rest[1] = <<":">>)
             THEN CollabLoop(Tail(rest), al2, n + 1)
             ELSE CollabLoop(rest, al2, n + 1)

_collaboration_at_start(ns) == CollabLoop(ns, <<>>, 0)

-----------------------------------------------------------------------------
(* _enum_collaboration_at_end                                              *)

\* a dict is a function from its keys
EmptyDict == [k \in {} |-> <<>>]

DictPut(d, k, v) == [a \in DOMAIN d \cup {k} |-> IF a = k THEN v ELSE d[a]]

\* '.' of re matches every character but the newline
NoNewline(s) == \A i \in 1..Len(s) : s[i] # "\n"

\* (.*)$ from position i: the rest of the string, which may end with one
\* newline that '$' leaves out; <<FALSE>> when the rest holds another newline
DotStarToEnd(s, i) ==
    LET rest == From(s, i)
        body == IF rest # <<>> /\ rest[Len(rest)] = "\n"
                THEN SubSeq(rest, 1, Len(rest) - 1) ELSE rest
    IN  [ok |-> NoNewline(body), text |-> body]

\* line_m.group(1) of re.search(r'\(\s*\((.*)$', author_line): the positions
\* where the two parentheses are found, and the text after the leftmost
EnumStarts(s) ==
    { i \in 1..Len(s) :
        /\ s[i] = "("
        /\ SkipSpace(s, i + 1) <= Len(s)
        /\ s[SkipSpace(s, i + 1)] = "("
        /\ DotStarToEnd(s, SkipSpace(s, i + 1) + 1).ok }

\* re.sub(r'\s*\)\s*$', '', s): a closing parenthesis that ends the string,
\* with the whitespace around it
StripClose(s) ==
    LET t == rstrip(s)
    IN  IF t # <<>> /\ t[Len(t)] = ")"
        THEN rstrip(SubSeq(t, 1, Len(t) - 1))
        ELSE s

\* str.split(sep) for a one-character sep
RECURSIVE SplitOn(_, _, _)
SplitOn(s, sep, cur) ==
    IF s = <<>> THEN <<cur>>
    ELSE IF s[1] = sep
         THEN <<cur>> \o SplitOn(Tail(s), sep, <<>>)
         ELSE SplitOn(Tail(s), sep, Append(cur, s[1]))

\* first position >= i of s that holds no digit
RECURSIVE SkipDigits(_, _)
SkipDigits(s, i) ==
    IF i <= Len(s) /\ s[i] \in DigitSet THEN SkipDigits(s, i + 1) ELSE i

\* re.sub(r'[\.,\s]*$', '', s)
RECURSIVE StripPunct(_)
StripPunct(s) ==
    IF s # <<>> /\ (s[Len(s)] \in {".", ","} \/ IsSpace(s[Len(s)]))
    THEN StripPunct(SubSeq(s, 1, Len(s) - 1)) ELSE s

\* re.match(r'^(\d+)\)\s*(\S.*\S)\s*$', affil): the label and the text, which
\* has two characters or more
EnumEntry(affil) ==
    LET d    == SkipDigits(affil, 1)
        a    == SkipSpace(affil, d + 1)
        text == rstrip(From(affil, a))
    IN  [ok    |-> /\ d > 1
                   /\ d <= Len(affil)
                   /\ affil[d] = ")"
                   /\ Len(text) >= 2
                   /\ NoNewline(text),
         label |-> SubSeq(affil, 1, d - 1),
         text  |-> StripPunct(text)]

RECURSIVE EnumLoop(_, _)
EnumLoop(fragments, d) ==
    IF fragments = <<>> THEN d
    ELSE LET e == EnumEntry(fragments[1])
         IN  IF e.ok
             THEN EnumLoop(Tail(fragments), DictPut(d, e.label, e.text))
             ELSE EnumLoop(Tail(fragments), d)

_enum_collaboration_at_end(author_line) ==
    LET starts == EnumStarts(author_line)
    IN  IF starts = {} THEN EmptyDict
        ELSE LET i  == CHOOSE a \in starts : \A b \in starts : a <= b
                 g1 == DotStarToEnd(author_line,
                                    SkipSpace(author_line, i + 1) + 1).text
             IN  EnumLoop(SplitOn(StripClose(g1), "(", <<>>), EmptyDict)

-----------------------------------------------------------------------------
(* The name patterns of _parse_author_affil_split                          *)

\* PREFIX_MATCH
PrefixWords ==
    { <<"v","a","n">>, <<"d","e","r">>, <<"d","e">>, <<"l","a">>,
      <<"v","o","n">>, <<"d","e","l">>, <<"d","e","l","l","a">>, <<"d","a">>,
      <<"m","a","c">>, <<"t","e","r">>, <<"d","e","m">>, <<"d","i">>,
      <<"v","a","z","i","r","i">> }

\* I|II|III|IV|V|Sr|Jr|Sr\.|Jr\.  under re.IGNORECASE
SuffixWords ==
    { <<"i">>, <<"i","i">>, <<"i","i","i">>, <<"i","v">>, <<"v">>,
      <<"s","r">>, <<"j","r">>, <<"s","r",".">>, <<"j","r",".">> }

\* the last position <= hi of s that holds whitespace, or 0
RECURSIVE LastSpace(_, _)
LastSpace(s, hi) ==
    IF hi < 1 THEN 0
    ELSE IF IsSpace(s[hi]) THEN hi ELSE LastSpace(s, hi - 1)

\* The four patterns end alike:  ^(.*)\s+ W \s W ... \s (\S+)$  where each W
\* is a run without whitespace.  Greedy (.*) leaves one whitespace character
\* to \s+, so the words are cut at the last whitespace characters of the
\* name: p before the last word, q before the word that ends at p - 1,
\* r before the word that ends at q - 1.
NameCuts(name) ==
    LET p == LastSpace(name, Len(name))
        q == LastSpace(name, p - 2)
        r == LastSpace(name, q - 2)
    IN  [p |-> p, q |-> q, r |-> r]

\* ^(.*)\s+(\S+)$
MatchNameName(name) ==
    LET c == NameCuts(name)
    IN  /\ c.p >= 1
        /\ c.p < Len(name)
        /\ NoNewline(SubSeq(name, 1, c.p - 1))

\* the word between the cuts lo and hi is not empty and is not preceded by
\* more than the whitespace \s+ takes, and (.*) before it holds no newline
WordBetween(name, lo, hi) ==
    /\ lo >= 1
    /\ lo < hi - 1
    /\ ~IsSpace(name[hi - 1])
    /\ NoNewline(SubSeq(name, 1, lo - 1))

\* ^(.*)\s+(\S+)\s(I|II|III|IV|V|Sr|Jr|Sr\.|Jr\.)$
MatchNameSuffix(name) ==
    LET c == NameCuts(name)
    IN  /\ c.p >= 1
        /\ FoldStr(From(name, c.p + 1)) \in SuffixWords
        /\ WordBetween(name, c.q, c.p)

\* ^(.*)\s+(PREFIX_MATCH)\s(\S+)$
MatchPrefix(name) ==
    LET c == NameCuts(name)
    IN  /\ c.p >= 1
        /\ c.p < Len(name)
        /\ WordBetween(name, c.q, c.p)
        /\ FoldStr(SubSeq(name, c.q + 1, c.p - 1)) \in PrefixWords

\* ^(.*)\s+(PREFIX_MATCH)\s(PREFIX_MATCH)\s(\S+)$
MatchDoublePrefix(name) ==
    LET c == NameCuts(name)
    IN  /\ c.p >= 1
        /\ c.p < Len(name)
        /\ c.q >= 1
        /\ c.q < c.p - 1
        /\ ~IsSpace(name[c.p - 1])
        /\ FoldStr(SubSeq(name, c.q + 1, c.p - 1)) \in PrefixWords
        /\ WordBetween(name, c.r, c.q)
        /\ FoldStr(SubSeq(name, c.r + 1, c.q - 1)) \in PrefixWords

\* DefaultEntry with the name in the wrong field
DefaultEntrySwapped(name) == << <<>>, name, <<>> >>

\* lines 476-477 and 489-490: no pattern matches
DefaultEntry(name) == << name, <<>>, <<>> >>

\* SplitName with the suffix pattern tried before the prefix patterns
SplitNameSuffixFirst(name) ==
    LET c    == NameCuts(name)
        last == From(name, c.p + 1)
        w2   == SubSeq(name, c.q + 1, c.p - 1)
        w3   == SubSeq(name, c.r + 1, c.q - 1)
    IN  IF MatchNameSuffix(name)
        THEN << w2, SubSeq(name, 1, c.q - 1), last >>
        ELSE IF MatchDoublePrefix(name)
        THEN << w3 \o <<" ">> \o w2 \o <<" ">> \o last,
                SubSeq(name, 1, c.r - 1), <<>> >>
        ELSE IF MatchPrefix(name)
        THEN << w2 \o <<" ">> \o last, SubSeq(name, 1, c.q - 1), <<>> >>
        ELSE IF MatchNameName(name)
        THEN << last, SubSeq(name, 1, c.p - 1), <<>> >>
        ELSE DefaultEntry(name)

\* lines 469-490: the entry [keyname, firstnames, suffix] of one name, from
\* the first pattern of the list that matches
SplitName(name) ==
    LET c    == NameCuts(name)
        last == From(name, c.p + 1)
        w2   == SubSeq(name, c.q + 1, c.p - 1)
        w3   == SubSeq(name, c.r + 1, c.q - 1)
    IN  IF MatchDoublePrefix(name)
        THEN << w3 \o <<" ">> \o w2 \o <<" ">> \o last,
                SubSeq(name, 1, c.r - 1), <<>> >>
        ELSE IF MatchPrefix(name)
        THEN << w2 \o <<" ">> \o last, SubSeq(name, 1, c.q - 1), <<>> >>
        ELSE IF MatchNameSuffix(name)
        THEN << w2, SubSeq(name, 1, c.q - 1), last >>
        ELSE IF MatchNameName(name)
        THEN << last, SubSeq(name, 1, c.p - 1), <<>> >>
        ELSE DefaultEntry(name)

-----------------------------------------------------------------------------
(* _add_affiliation                                                        *)

\* re.escape(name).replace(' ', 's*') matched at position i of the line under
\* re.IGNORECASE, from the k-th character of the name on: every character is
\* a literal, but a space, which is \s*.  The index after the match, or 0.
RECURSIVE NameEnd(_, _, _, _)
NameEnd(line, i, name, k) ==
    IF k > Len(name) THEN i
    ELSE IF name[k] = " "
         THEN NameEnd(line, SkipSpace(line, i), name, k + 1)
         ELSE IF i <= Len(line) /\ Fold(line[i]) = Fold(name[k])
              THEN NameEnd(line, i + 1, name, k + 1)
              ELSE 0

\* first position >= i of s that holds a parenthesis (Len(s)+1 if none)
RECURSIVE SkipNoParen(_, _)
SkipNoParen(s, i) ==
    IF i <= Len(s) /\ s[i] \notin {"(", ")"} THEN SkipNoParen(s, i + 1) ELSE i

\* where the group ([^\(\)]+) of namerex starts when the name is matched at
\* position i of the line, or 0
AffilStart(line, i, name) ==
    LET e == NameEnd(line, i, name, 1)
        j == SkipSpace(line, e)
    IN  IF /\ e # 0
           /\ j <= Len(line)
           /\ line[j] = "("
           /\ SkipNoParen(line, j + 1) > j + 1
        THEN j + 1 ELSE 0

\* where a match of (&|and)/, under re.IGNORECASE that starts at i ends, or 0
AmpCommaEnd(s, i) ==
    IF At(s, i, <<"&", "/", ",">>) THEN i + 3
    ELSE IF AtCI(s, i, <<"a","n","d">>) /\ At(s, i + 3, <<"/", ",">>) THEN i + 5
    ELSE 0

\* re.sub(r'(&|and)/,', ',', affils, flags=re.IGNORECASE)
RECURSIVE AmpCommaSub(_, _)
AmpCommaSub(s, i) ==
    IF i > Len(s) THEN <<>>
    ELSE IF AmpCommaEnd(s, i) # 0
         THEN <<",">> \o AmpCommaSub(s, AmpCommaEnd(s, i))
         ELSE <<s[i]>> \o AmpCommaSub(s, i + 1)

\* re.match(r'^[\d,\s]+$', affils)
IsEnumRef(affils) ==
    /\ affils # <<>>
    /\ \A i \in 1..Len(affils) :
           affils[i] \in DigitSet \/ affils[i] = "," \/ IsSpace(affils[i])

\* the loop over affils.split(','): the texts of the labels that are keys
RECURSIVE LookupAll(_, _)
LookupAll(labels, d) ==
    IF labels = <<>> THEN <<>>
    ELSE IF labels[1] \in DOMAIN d
         THEN <<d[labels[1]]>> \o LookupAll(Tail(labels), d)
         ELSE LookupAll(Tail(labels), d)

\* lines 586-594: whether namerex is found in the line, and the text of the
\* parenthesis after the name, stripped and passed through the re.sub
FoundAffils(author_line, name) ==
    LET starts == { i \in 1..Len(author_line) :
                        AffilStart(author_line, i, name) # 0 }
    IN  IF starts = {} THEN [found |-> FALSE, affils |-> <<>>]
        ELSE LET i     == CHOOSE a \in starts : \A b \in starts : a <= b
                 g     == AffilStart(author_line, i, name)
                 group == SubSeq(author_line, g,
                                 SkipNoParen(author_line, g) - 1)
             IN  [found |-> TRUE, affils |-> AmpCommaSub(strip(group), 1)]

\* lines 596-601: what the parenthesis text adds to the entry
Affiliations(affils, enums) ==
    IF IsEnumRef(affils)
    THEN LookupAll(SplitOn(affils, ",", <<>>), enums)
    ELSE <<affils>>

_add_affiliation(author_line, enums, author_entry, name) ==
    LET f == FoundAffils(author_line, name)
    IN  IF ~f.found THEN author_entry
        ELSE author_entry \o Affiliations(f.affils, enums)

\* one turn of the loop over names, lines 469-495
AuthorEntry(author_line, enums, name) ==
    _add_affiliation(author_line, enums, SplitName(name), name)

-----------------------------------------------------------------------------
(* _parse_author_affil_back_propagate                                      *)

\* BackPropStop without the boundary: range(len(author_list) - 1, -1, -1)
BackPropStopAtStart(bp) == -1

\* max(back_prop - 1, -1): the index the loop stops before (0-based)
BackPropStop(bp) == IF bp - 1 > -1 THEN bp - 1 ELSE -1

\* BackPropBody that keeps the first affiliations it met: last_affil is set
\* only while it is empty
BackPropBodyKeepFirst(al, i, la) ==
    LET author_entry == al[i + 1]
    IN  IF Len(author_entry) > 3
        THEN [author_list |-> al,
              last_affil |-> IF la = <<>> THEN author_entry ELSE la]
        ELSE IF la # <<>>
        THEN [author_list |->
                  [al EXCEPT ![i + 1] = author_entry \o SubSeq(la, 4, Len(la))],
              last_affil |-> la]
        ELSE [author_list |-> al, last_affil |-> la]

\* the loop body for the 0-based index i: [author_list, last_affil]
BackPropBody(al, i, la) ==
    LET author_entry == al[i + 1]
    IN  IF Len(author_entry) > 3
        THEN [author_list |-> al, last_affil |-> author_entry]
        ELSE IF la # <<>>
        THEN [author_list |->
                  [al EXCEPT ![i + 1] = author_entry \o SubSeq(la, 4, Len(la))],
              last_affil |-> la]
        ELSE [author_list |-> al, last_affil |-> la]

-----------------------------------------------------------------------------
(* Bounded inputs                                                          *)

\* every concatenation of at most n pieces of P
RECURSIVE LinesOf(_, _)
LinesOf(P, n) ==
    IF n = 0 THEN {<<>>}
    ELSE LET L == LinesOf(P, n - 1)
         IN  L \cup {l \o p : l \in L, p \in P}

\* the longest author line of the tokenizer's specification, in pieces
MaxPieces == 4

\* the pieces the tokenizer's input lines are made of
SplitPieces ==
    { <<"A">>, <<" ">>, <<",">>, <<",", " ">>, <<":">>, <<"(">>, <<")">>,
      <<" ","a","n","d"," ">>, <<"a","n","d">>, <<"&">>,
      <<"J","r",".">>, <<"I","I">> }

-----------------------------------------------------------------------------
(* split_authors as a state machine: one action per stage of the function  *)

Idle == /\ blocks = <<>> /\ listx = <<>> /\ parts = <<>> /\ names = <<>>
        /\ author_list = <<>> /\ back_prop = 0 /\ enumaffils = <<>>
        /\ split_list = <<>> /\ x = 0 /\ last_affil = <<>>

InitSplit == /\ pc = "start"
             /\ authors \in LinesOf(SplitPieces, MaxPieces)
             /\ Idle
             /\ TexIdle /\ MergeIdle /\ OaiIdle

\* lines 645-646: if not authors: return []
SplitEmpty == /\ pc = "start"
              /\ authors = <<>>
              /\ pc' = "parts"
              /\ UNCHANGED <<authors, blocks, listx, parts, names, author_list,
                             back_prop, enumaffils, split_list, x, last_affil>>
              /\ UNCHANGED <<texVars, mergeVars, oaiVars>>

\* lines 647-677: the blocks between parentheses
SplitBlocks == /\ pc = "start"
               /\ authors # <<>>
               /\ blocks' = Blocks(authors)
               /\ pc' = "blocks"
               /\ UNCHANGED <<authors, listx, parts, names, author_list,
                              back_prop, enumaffils, split_list, x, last_affil>>
               /\ UNCHANGED <<texVars, mergeVars, oaiVars>>

\* lines 679-693: names, separators and comments
SplitListx == /\ pc = "blocks"
              /\ listx' = ListX(blocks)
              /\ pc' = "listx"
              /\ UNCHANGED <<authors, blocks, parts, names, author_list,
                             back_prop, enumaffils, split_list, x, last_affil>>
              /\ UNCHANGED <<texVars, mergeVars, oaiVars>>

\* lines 695-709: suffixes recombined
SplitParts == /\ pc = "listx"
              /\ parts' = Recombine(listx, <<>>)
              /\ pc' = "parts"
              /\ UNCHANGED <<authors, blocks, listx, names, author_list,
                             back_prop, enumaffils, split_list, x, last_affil>>
              /\ UNCHANGED <<texVars, mergeVars, oaiVars>>

NextSplit == SplitEmpty \/ SplitBlocks \/ SplitListx \/ SplitParts

SpecSplit == InitSplit /\ [][NextSplit]_vars

-----------------------------------------------------------------------------
(* parse_author_affil as a state machine                                   *)

\* the most authors (name with its affiliation) of an author line
MaxSegs == 2

\* an author of a line: a name, or a name and the parenthesis after it
Segments ==
    { <<"X"," ","t","e","a","m">>,
      <<"A">>,
      <<"A"," ","(","M",")">>,
      <<"B"," ","(","1",","," ","2",")">>,
      <<"B"," ","(","1"," ","&"," ","2",")">>,
      <<"J"," ","d","e"," ","B">>,
      <<"J"," ","d","e"," ","l","a"," ","B"," ","(","2",")">>,
      <<"J"," ","B"," ","J","r">>,
      <<"J"," ","d","e"," ","J","r">>,
      <<"e","t"," ","a","l">>,
      <<"(","M",")">>,
      <<"C"," ","(","3",")">>,
      <<" ">> }

\* what stands between two authors
Separators ==
    { <<","," ">>,
      <<" ","a","n","d"," ">>,
      <<":"," ">> }

\* the end of a line: nothing, or the enumerated affiliations
Trailers ==
    { <<>>,
      <<" ","(","(","1",")"," ","X","a"," ","(","2",")"," ","Y","b",")">> }

\* n authors with separators between them, for 1 <= n <= k
RECURSIVE AuthorRuns(_)
AuthorRuns(k) ==
    IF k = 1 THEN Segments
    ELSE LET R == AuthorRuns(k - 1)
         IN  R \cup {r \o sp \o sg : r \in R, sp \in Separators, sg \in Segments}

\* the author lines of the specification, the empty line among them
ParseLines ==
    {<<>>} \cup {r \o t : r \in AuthorRuns(MaxSegs), t \in Trailers}

Init == /\ pc = "start"
        /\ authors \in ParseLines
        /\ Idle
        /\ TexIdle /\ MergeIdle /\ OaiIdle

\* lines 429-430: if not author_line: return the empty list
\* (and the back-propagation loop over it does not run)
ParseEmpty ==
    /\ pc = "start"
    /\ authors = <<>>
    /\ pc' = "done"
    /\ UNCHANGED <<authors, blocks, listx, parts, names, author_list,
                   back_prop, enumaffils, split_list, x, last_affil>>
    /\ UNCHANGED <<texVars, mergeVars, oaiVars>>

\* lines 433-434: if not names: return the empty list
NoNames ==
    /\ pc = "parts"
    /\ parts = <<>>
    /\ pc' = "done"
    /\ UNCHANGED <<authors, blocks, listx, parts, names, author_list,
                   back_prop, enumaffils, split_list, x, last_affil>>
    /\ UNCHANGED <<texVars, mergeVars, oaiVars>>

\* lines 436-447: commas removed, names kept and tidied, 'et al' removed
TidyNames ==
    /\ pc = "parts"
    /\ parts # <<>>
    /\ names' = CleanNames(parts)
    /\ pc' = "names"
    /\ UNCHANGED <<authors, blocks, listx, parts, author_list, back_prop,
                   enumaffils, split_list, x, last_affil>>
    /\ UNCHANGED <<texVars, mergeVars, oaiVars>>

\* lines 449-450
CollaborationAtStart ==
    /\ pc = "names"
    /\ LET r == _collaboration_at_start(names)
       IN  /\ names' = r.names
           /\ author_list' = r.author_list
           /\ back_prop' = r.back_prop
    /\ pc' = "collab"
    /\ UNCHANGED <<authors, blocks, listx, parts, enumaffils, split_list, x,
                   last_affil>>
    /\ UNCHANGED <<texVars, mergeVars, oaiVars>>

\* line 452
EnumAtEnd ==
    /\ pc = "collab"
    /\ enumaffils' = _enum_collaboration_at_end(authors)
    /\ pc' = "loop"
    /\ UNCHANGED <<authors, blocks, listx, parts, names, author_list,
                   back_prop, split_list, x, last_affil>>
    /\ UNCHANGED <<texVars, mergeVars, oaiVars>>

\* lines 469-495: one turn of the loop over names (names holds the names
\* still to go)
NameTurn ==
    /\ pc = "loop"
    /\ names # <<>>
    /\ author_list' = Append(author_list,
                             AuthorEntry(authors, enumaffils, names[1]))
    /\ names' = Tail(names)
    /\ UNCHANGED <<pc, authors, blocks, listx, parts, back_prop, enumaffils,
                   split_list, x, last_affil>>
    /\ UNCHANGED <<texVars, mergeVars, oaiVars>>

\* lines 497-498 and 415-416, 622-623: the split returns and the
\* back-propagation starts at the last index
SplitReturn ==
    /\ pc = "loop"
    /\ names = <<>>
    /\ split_list' = author_list
    /\ x' = Len(author_list) - 1
    /\ last_affil' = <<>>
    /\ pc' = "backprop"
    /\ UNCHANGED <<authors, blocks, listx, parts, names, author_list,
                   back_prop, enumaffils>>
    /\ UNCHANGED <<texVars, mergeVars, oaiVars>>

\* lines 623-629: one turn of the loop
BackPropTurn ==
    /\ pc = "backprop"
    /\ x > BackPropStop(back_prop)
    /\ LET r == BackPropBody(author_list, x, last_affil)
       IN  /\ author_list' = r.author_list
           /\ last_affil' = r.last_affil
    /\ x' = x - 1
    /\ UNCHANGED <<pc, authors, blocks, listx, parts, names, back_prop,
                   enumaffils, split_list>>
    /\ UNCHANGED <<texVars, mergeVars, oaiVars>>

\* line 631
BackPropReturn ==
    /\ pc = "backprop"
    /\ x <= BackPropStop(back_prop)
    /\ pc' = "done"
    /\ UNCHANGED <<authors, blocks, listx, parts, names, author_list,
                   back_prop, enumaffils, split_list, x, last_affil>>
    /\ UNCHANGED <<texVars, mergeVars, oaiVars>>

Next == \/ ParseEmpty
        \/ SplitBlocks
        \/ SplitListx
        \/ SplitParts
        \/ NoNames
        \/ TidyNames
        \/ CollaborationAtStart
        \/ EnumAtEnd
        \/ NameTurn
        \/ SplitReturn
        \/ BackPropTurn
        \/ BackPropReturn

Spec == Init /\ [][Next]_vars

-----------------------------------------------------------------------------
(* _parse_author_affil_back_propagate on its own, over bounded lists       *)

\* the longest author list of the back-propagation specification
MaxAuthors == 4

\* the affiliations an entry of these lists may carry
AffilRuns == { <<>>, << <<"M">> >>, << <<"N">> >>, << <<"M">>, <<"N">> >> }

\* the entries: keyname, firstnames, suffix, affiliations
Entries == { << <<"K">>, <<"F">>, <<>> >> \o af : af \in AffilRuns }

EntryLists == UNION { [1..n -> Entries] : n \in 0..MaxAuthors }

\* the arguments the split hands over: the first back_prop entries are the
\* collaboration entries, which carry no affiliation (line 545)
InitBackProp ==
    /\ pc = "backprop"
    /\ author_list \in EntryLists
    /\ back_prop \in 0..Len(author_list)
    /\ \A i \in 1..back_prop : Len(author_list[i]) = 3
    /\ split_list = author_list
    /\ x = Len(author_list) - 1
    /\ last_affil = <<>>
    /\ authors = <<>> /\ blocks = <<>> /\ listx = <<>> /\ parts = <<>>
    /\ names = <<>> /\ enumaffils = <<>>
    /\ TexIdle /\ MergeIdle /\ OaiIdle

NextBackProp == BackPropTurn \/ BackPropReturn

SpecBackProp == InitBackProp /\ [][NextBackProp]_vars

-----------------------------------------------------------------------------
(* Properties                                                              *)

\* the entries of the list that carried an affiliation before the pass,
\* after position i (1-based)
AnnotatedAfter(l, i) == { j \in (i + 1)..Len(l) : Len(l[j]) > 3 }

\* what the pass has to leave at position i of the list l it was given
Propagated(l, i) ==
    IF Len(l[i]) > 3 \/ AnnotatedAfter(l, i) = {}
    THEN l[i]
    ELSE LET j == CHOOSE a \in AnnotatedAfter(l, i) :
                      \A b \in AnnotatedAfter(l, i) : a <= b
         IN  l[i] \o SubSeq(l[j], 4, Len(l[j]))

\* C1: after _parse_author_affil_back_propagate, every entry at or after the
\* collaboration boundary that had no affiliation and is followed by an
\* entry that had some holds exactly the affiliations of the nearest such
\* later entry, in order; an entry that had affiliations keeps its own, and
\* an entry with no later annotated entry stays without.
C1_BackPropagated ==
    pc = "done" =>
        /\ Len(author_list) = Len(split_list)
        /\ \A i \in (back_prop + 1)..Len(split_list) :
               author_list[i] = Propagated(split_list, i)

\* the scenario of the documentation: first, second (1), third, forth (2,3)
C1_Witness ==
    /\ pc = "done"
    /\ back_prop = 0
    /\ Len(split_list) = 4
    /\ Len(split_list[1]) = 3 /\ Len(author_list[1]) = 4
    /\ Len(split_list[2]) = 4
    /\ Len(split_list[3]) = 3 /\ Len(author_list[3]) = 5
    /\ Len(split_list[4]) = 5
    /\ author_list[1][4] # author_list[3][4]

\* C2: back-propagation never modifies a collaboration entry: the first
\* back_prop entries of the list are the same before, during and after the
\* pass, also when later entries carry affiliations.
C2_CollaborationUntouched ==
    pc \in {"backprop", "done"} =>
        \A i \in 1..back_prop :
            /\ i <= Len(author_list)
            /\ author_list[i] = split_list[i]

\* a line with a collaboration entry followed by an annotated author
C2_Witness ==
    /\ pc = "done"
    /\ back_prop >= 1
    /\ \E j \in (back_prop + 1)..Len(author_list) : Len(author_list[j]) > 3

\* the tokens _collaboration_at_start is given, and the names it leaves
TokensIn == CleanNames(parts)

NamesLeft == _collaboration_at_start(TokensIn).names

IsCollabToken(t) == CollabPhrase(t) # <<>>

\* token i is a bare ',' or ':' right after a collaboration token
Swallowed(toks, i) ==
    /\ i > 1
    /\ toks[i] \in {<<",">>, <<":">>}
    /\ IsCollabToken(toks[i - 1])

\* the first c tokens are the leading run: collaboration tokens, each with
\* at most one swallowed separator after it, and token c + 1 is neither
LeadingRun(toks, c) ==
    /\ \A i \in 1..c : IsCollabToken(toks[i]) \/ Swallowed(toks, i)
    /\ c < Len(toks) =>
           ~IsCollabToken(toks[c + 1]) /\ ~Swallowed(toks, c + 1)

RECURSIVE LookupStripped(_, _)
LookupStripped(labels, d) ==
    IF labels = <<>> THEN <<>>
    ELSE IF strip(labels[1]) \in DOMAIN d
         THEN <<d[strip(labels[1])]>> \o LookupStripped(Tail(labels), d)
         ELSE LookupStripped(Tail(labels), d)

\* C4: when the parenthesis found after a name holds only digits, commas
\* and whitespace, the entry gets, in order, the text of every label between
\* the commas that is a key of the enumerated map, a label written with
\* whitespace around it too, and no text for a label that is no key.
C4_CounterExample ==
    pc \in {"backprop", "done"} =>
        \A j \in 1..Len(NamesLeft) :
            LET f == FoundAffils(authors, NamesLeft[j])
                e == split_list[back_prop + j]
            IN  f.found /\ IsEnumRef(f.affils) =>
                    SubSeq(e, 4, Len(e))
                        = LookupStripped(SplitOn(f.affils, ",", <<>>), enumaffils)

\* s from position i on is made of digits, whitespace, ',', '&' and 'and'
RECURSIVE LabelChars(_, _)
LabelChars(s, i) ==
    \/ i > Len(s)
    \/ /\ i <= Len(s)
       /\ s[i] \in DigitSet \cup {",", "&"} \/ IsSpace(s[i])
       /\ LabelChars(s, i + 1)
    \/ AtCI(s, i, <<"a","n","d">>) /\ LabelChars(s, i + 3)

\* an enumerated reference: numeric labels joined by ',', '&' or 'and'
IsLabelList(s) == (\E i \in 1..Len(s) : s[i] \in DigitSet) /\ LabelChars(s, 1)

\* C5: no affiliation of an entry returned by parse_author_affil is an
\* enumerated reference itself.
C5_CounterExample ==
    pc = "done" =>
        \A i \in 1..Len(author_list) :
            \A a \in 4..Len(author_list[i]) : ~IsLabelList(author_list[i][a])

\* C6: every entry of the author list has at least three elements and a
\* keyname that is not empty, whether it comes from the collaboration
\* step, from a pattern or from the default.
C6_KeynameNotEmpty ==
    \A i \in 1..Len(author_list) :
        Len(author_list[i]) >= 3 /\ author_list[i][1] # <<>>

\* a list with a collaboration entry and an entry of the suffix pattern
C6_Witness ==
    /\ pc = "done"
    /\ back_prop >= 1
    /\ \E k \in (back_prop + 1)..Len(author_list) : author_list[k][3] # <<>>

HasLetter(s) == \E i \in 1..Len(s) : IsLetter(s[i])

RECURSIVE JoinWords(_)
JoinWords(w) ==
    IF w = <<>> THEN <<>>
    ELSE IF Len(w) = 1 THEN w[1]
    ELSE w[1] \o <<" ">> \o JoinWords(Tail(w))

\* the split the ordered patterns ask for, on the words of the name
ExpectedSplit(name) ==
    LET w      == SplitOn(name, " ", <<>>)
        k      == Len(w)
        isP(i) == FoldStr(w[i]) \in PrefixWords
    IN  IF k >= 4 /\ isP(k - 2) /\ isP(k - 1)
        THEN << JoinWords(SubSeq(w, k - 2, k)), JoinWords(SubSeq(w, 1, k - 3)), <<>> >>
        ELSE IF k >= 3 /\ isP(k - 1)
        THEN << JoinWords(SubSeq(w, k - 1, k)), JoinWords(SubSeq(w, 1, k - 2)), <<>> >>
        ELSE IF k >= 3 /\ FoldStr(w[k]) \in SuffixWords
        THEN << w[k - 1], JoinWords(SubSeq(w, 1, k - 2)), w[k] >>
        ELSE IF k >= 2
        THEN << w[k], JoinWords(SubSeq(w, 1, k - 1)), <<>> >>
        ELSE << name, <<>>, <<>> >>

\* C8: every name is split by the first pattern that matches, in the order
\* double-prefix, name-prefix-name, name-name-suffix, name-name, and a name
\* that matches none gives keyname = the name, no firstnames, no suffix.
C8_FirstPatternWins ==
    pc = "done" =>
        LET left == NamesLeft
        IN  /\ Len(split_list) = back_prop + Len(left)
            /\ \A j \in 1..Len(left) :
                   SubSeq(split_list[back_prop + j], 1, 3)
                       = ExpectedSplit(left[j])

\* 'J de Jr': the particle before the last word wins over the suffix
C8_Witness ==
    /\ pc = "done"
    /\ \E j \in 1..Len(NamesLeft) :
           LET w == SplitOn(NamesLeft[j], " ", <<>>)
               e == split_list[back_prop + j]
           IN  /\ Len(w) = 3
               /\ FoldStr(w[2]) \in PrefixWords
               /\ FoldStr(w[3]) \in SuffixWords
               /\ e[1] = w[2] \o <<" ">> \o w[3]
               /\ e[3] = <<>>

NotSpace(c) == ~IsSpace(c)

\* s without its whitespace
NoSpace(s) == SelectSeq(s, NotSpace)

\* where a connective that starts at position i of the line ends: an
\* optional comma, whitespace, 'and' or '&', whitespace
ConnectiveAt(s, i) ==
    LET j == IF i <= Len(s) /\ s[i] = "," THEN i + 1 ELSE i
        k == SkipSpace(s, j)
    IN  IF k = j THEN {}
        ELSE { e \in {k + 2, k + 4} :
                 /\ e - 1 <= Len(s)
                 /\ IsSpace(s[e - 1])
                 /\ \/ e = k + 4 /\ At(s, k, <<"a","n","d">>)
                    \/ e = k + 2 /\ At(s, k, <<"&">>) }

\* out, from position j on, is the line from position i on with its
\* whitespace left out and some of its connectives written as a comma:
\* nothing else is dropped, added or moved
RECURSIVE Reproduces(_, _, _, _)
Reproduces(line, i, out, j) ==
    IF i > Len(line) THEN j > Len(out)
    ELSE \/ IsSpace(line[i]) /\ Reproduces(line, i + 1, out, j)
         \/ /\ ~IsSpace(line[i])
            /\ j <= Len(out)
            /\ out[j] = line[i]
            /\ Reproduces(line, i + 1, out, j + 1)
         \/ /\ j <= Len(out)
            /\ out[j] = ","
            /\ \E e \in ConnectiveAt(line, i) : Reproduces(line, e, out, j + 1)

\* C9: split_authors is lossless: the blocks concatenated are the line, and
\* the tokens returned, concatenated in order, are the line up to whitespace
\* and to connectives written as commas, for balanced and unbalanced
\* parentheses alike.
C9_Lossless ==
    /\ pc = "blocks" => Concat(blocks) = authors
    /\ pc = "listx" => Reproduces(authors, 1, NoSpace(Concat(listx)), 1)
    /\ pc = "parts" => Reproduces(authors, 1, NoSpace(Concat(parts)), 1)

Count(s, c) == Cardinality({ i \in 1..Len(s) : s[i] = c })

\* a line with unbalanced parentheses and a connective that became a comma
C9_Witness ==
    /\ pc = "parts"
    /\ Count(authors, "(") # Count(authors, ")")
    /\ Len(NoSpace(Concat(parts))) < Len(NoSpace(authors))

\* a suffix as the documentation has it: Jr, Jr., Sr, Sr. or a roman
\* numeral of two or more of I and V
IsSuffixToken(p) ==
    \/ p \in { <<"J","r">>, <<"J","r",".">>, <<"S","r">>, <<"S","r",".">> }
    \/ Len(p) >= 2 /\ \A i \in 1..Len(p) : p[i] \in {"I", "V"}

\* a closed parenthesised comment block
IsClosedComment(t) == t # <<>> /\ t[1] = "(" /\ t[Len(t)] = ")"

\* the recombination the documentation describes
RECURSIVE RecombineClaimed(_, _)
RecombineClaimed(lx, ps) ==
    IF lx = <<>> THEN ps
    ELSE LET p == lx[1]
             n == Len(ps)
         IN  IF /\ IsSuffixToken(p)
                /\ n >= 2
                /\ ps[n] = <<",">>
                /\ ~IsClosedComment(ps[n - 1])
             THEN RecombineClaimed(Tail(lx),
                                   Append(SubSeq(ps, 1, n - 2),
                                          ps[n - 1] \o <<",", " ">> \o p))
             ELSE RecombineClaimed(Tail(lx), Append(ps, p))

\* C10: in the final pass of split_authors a suffix token (Jr, Jr., Sr, Sr.,
\* a roman numeral) that follows a name token and a single ',' token is
\* recombined with them into '<name>, <suffix>', unless the element before
\* the comma is a closed parenthesised comment block.
C10_CounterExample ==
    pc = "parts" => parts = RecombineClaimed(listx, <<>>)

-----------------------------------------------------------------------------
(* Unbalanced parentheses in split_authors                                 *)

\* opening minus closing parentheses in s[i..j]
Balance(s, i, j) ==
    Cardinality({k \in i..j : s[k] = "("}) - Cardinality({k \in i..j : s[k] = ")"})

\* the opening parentheses of s that no later closing parenthesis matches
Unclosed(s) ==
    { i \in 1..Len(s) : s[i] = "(" /\ \A j \in i..Len(s) : Balance(s, i, j) >= 1 }

FirstUnclosed(s) == CHOOSE i \in Unclosed(s) : \A k \in Unclosed(s) : i <= k

\* a closing parenthesis of s[1..i-1] that no earlier opening one matches
StrayCloseBefore(s, i) == \E j \in 1..(i - 1) : Balance(s, 1, j) < 0

-----------------------------------------------------------------------------
(* tex2utf                                                                 *)

\* accents (lines 721-775): chr(0x00c1) is written "U+00C1", and the
\* grave accent character, which a string of this notation cannot hold, is
\* written "grave"
accents ==
    { <<<<"'","A">>, "U+00C1">>, <<<<"'","C">>, "U+0106">>, <<<<"'","E">>, "U+00C9">>,
      <<<<"'","I">>, "U+00CD">>, <<<<"'","L">>, "U+0139">>, <<<<"'","N">>, "U+0143">>,
      <<<<"'","O">>, "U+00D3">>, <<<<"'","R">>, "U+0154">>, <<<<"'","S">>, "U+015A">>,
      <<<<"'","U">>, "U+00DA">>, <<<<"'","Y">>, "U+00DD">>, <<<<"'","Z">>, "U+0179">>,
      <<<<"'","a">>, "U+00E1">>, <<<<"'","c">>, "U+0107">>, <<<<"'","e">>, "U+00E9">>,
      <<<<"'","i">>, "U+00ED">>, <<<<"'","l">>, "U+013A">>, <<<<"'","n">>, "U+0144">>,
      <<<<"'","o">>, "U+00F3">>, <<<<"'","r">>, "U+0155">>, <<<<"'","s">>, "U+015B">>,
      <<<<"'","u">>, "U+00FA">>, <<<<"'","y">>, "U+00FD">>, <<<<"'","z">>, "U+017A">>,
      <<<<"\"","A">>, "U+00C4">>, <<<<"\"","E">>, "U+00CB">>, <<<<"\"","I">>, "U+00CF">>,
      <<<<"\"","O">>, "U+00D6">>, <<<<"\"","U">>, "U+00DC">>, <<<<"\"","Y">>, "U+0178">>,
      <<<<"\"","a">>, "U+00E4">>, <<<<"\"","e">>, "U+00EB">>, <<<<"\"","i">>, "U+00EF">>,
      <<<<"\"","o">>, "U+00F6">>, <<<<"\"","u">>, "U+00FC">>, <<<<"\"","y">>, "U+00FF">>,
      <<<<".","A">>, "U+0226">>, <<<<".","C">>, "U+010A">>, <<<<".","E">>, "U+0116">>,
      <<<<".","G">>, "U+0120">>, <<<<".","I">>, "U+0130">>, <<<<".","O">>, "U+022E">>,
      <<<<".","Z">>, "U+017B">>, <<<<".","a">>, "U+0227">>, <<<<".","c">>, "U+010B">>,
      <<<<".","e">>, "U+0117">>, <<<<".","g">>, "U+0121">>, <<<<".","o">>, "U+022F">>,
      <<<<".","z">>, "U+017C">>, <<<<"=","A">>, "U+0100">>, <<<<"=","E">>, "U+0112">>,
      <<<<"=","I">>, "U+012A">>, <<<<"=","O">>, "U+014C">>, <<<<"=","U">>, "U+016A">>,
      <<<<"=","Y">>, "U+0232">>, <<<<"=","a">>, "U+0101">>, <<<<"=","e">>, "U+0113">>,
      <<<<"=","i">>, "U+012B">>, <<<<"=","o">>, "U+014D">>, <<<<"=","u">>, "U+016B">>,
      <<<<"=","y">>, "U+0233">>, <<<<"^","A">>, "U+00C2">>, <<<<"^","C">>, "U+0108">>,
      <<<<"^","E">>, "U+00CA">>, <<<<"^","G">>, "U+011C">>, <<<<"^","H">>, "U+0124">>,
      <<<<"^","I">>, "U+00CE">>, <<<<"^","J">>, "U+0134">>, <<<<"^","O">>, "U+00D4">>,
      <<<<"^","S">>, "U+015C">>, <<<<"^","U">>, "U+00DB">>, <<<<"^","W">>, "U+0174">>,
      <<<<"^","Y">>, "U+0176">>, <<<<"^","a">>, "U+00E2">>, <<<<"^","c">>, "U+0109">>,
      <<<<"^","e">>, "U+00EA">>, <<<<"^","g">>, "U+011D">>, <<<<"^","h">>, "U+0125">>,
      <<<<"^","i">>, "U+00EE">>, <<<<"^","j">>, "U+0135">>, <<<<"^","o">>, "U+00F4">>,
      <<<<"^","s">>, "U+015D">>, <<<<"^","u">>, "U+00FB">>, <<<<"^","w">>, "U+0175">>,
      <<<<"^","y">>, "U+0177">>, <<<<"grave","A">>, "U+00C0">>, <<<<"grave","E">>, "U+00C8">>,
      <<<<"grave","I">>, "U+00CC">>, <<<<"grave","O">>, "U+00D2">>, <<<<"grave","U">>, "U+00D9">>,
      <<<<"grave","a">>, "U+00E0">>, <<<<"grave","e">>, "U+00E8">>, <<<<"grave","i">>, "U+00EC">>,
      <<<<"grave","o">>, "U+00F2">>, <<<<"grave","u">>, "U+00F9">>, <<<<"~","A">>, "U+00C3">>,
      <<<<"~","I">>, "U+0128">>, <<<<"~","N">>, "U+00D1">>, <<<<"~","O">>, "U+00D5">>,
      <<<<"~","U">>, "U+0168">>, <<<<"~","a">>, "U+00E3">>, <<<<"~","i">>, "U+0129">>,
      <<<<"~","n">>, "U+00F1">>, <<<<"~","o">>, "U+00F5">>, <<<<"~","u">>, "U+0169">>,
      <<<<"H","O">>, "U+0150">>, <<<<"H","U">>, "U+0170">>, <<<<"H","o">>, "U+0151">>,
      <<<<"H","u">>, "U+0171">>, <<<<"c","C">>, "U+00C7">>, <<<<"c","E">>, "U+0228">>,
      <<<<"c","G">>, "U+0122">>, <<<<"c","K">>, "U+0136">>, <<<<"c","L">>, "U+013B">>,
      <<<<"c","N">>, "U+0145">>, <<<<"c","R">>, "U+0156">>, <<<<"c","S">>, "U+015E">>,
      <<<<"c","T">>, "U+0162">>, <<<<"c","c">>, "U+00E7">>, <<<<"c","e">>, "U+0229">>,
      <<<<"c","g">>, "U+0123">>, <<<<"c","k">>, "U+0137">>, <<<<"c","l">>, "U+013C">>,
      <<<<"c","n">>, "U+0146">>, <<<<"c","r">>, "U+0157">>, <<<<"c","s">>, "U+015F">>,
      <<<<"c","t">>, "U+0163">>, <<<<"k","A">>, "U+0104">>, <<<<"k","E">>, "U+0118">>,
      <<<<"k","I">>, "U+012E">>, <<<<"k","O">>, "U+01EA">>, <<<<"k","U">>, "U+0172">>,
      <<<<"k","a">>, "U+0105">>, <<<<"k","e">>, "U+0119">>, <<<<"k","i">>, "U+012F">>,
      <<<<"k","o">>, "U+01EB">>, <<<<"k","u">>, "U+0173">>, <<<<"r","A">>, "U+00C5">>,
      <<<<"r","U">>, "U+016E">>, <<<<"r","a">>, "U+00E5">>, <<<<"r","u">>, "U+016F">>,
      <<<<"u","A">>, "U+0102">>, <<<<"u","E">>, "U+0114">>, <<<<"u","G">>, "U+011E">>,
      <<<<"u","I">>, "U+012C">>, <<<<"u","O">>, "U+014E">>, <<<<"u","U">>, "U+016C">>,
      <<<<"u","a">>, "U+0103">>, <<<<"u","e">>, "U+0115">>, <<<<"u","g">>, "U+011F">>,
      <<<<"u","i">>, "U+012D">>, <<<<"u","o">>, "U+014F">>, <<<<"u","u">>, "U+016D">>,
      <<<<"v","A">>, "U+01CD">>, <<<<"v","C">>, "U+010C">>, <<<<"v","D">>, "U+010E">>,
      <<<<"v","E">>, "U+011A">>, <<<<"v","G">>, "U+01E6">>, <<<<"v","H">>, "U+021E">>,
      <<<<"v","I">>, "U+01CF">>, <<<<"v","K">>, "U+01E8">>, <<<<"v","L">>, "U+013D">>,
      <<<<"v","N">>, "U+0147">>, <<<<"v","O">>, "U+01D1">>, <<<<"v","R">>, "U+0158">>,
      <<<<"v","S">>, "U+0160">>, <<<<"v","T">>, "U+0164">>, <<<<"v","U">>, "U+01D3">>,
      <<<<"v","Z">>, "U+017D">>, <<<<"v","a">>, "U+01CE">>, <<<<"v","c">>, "U+010D">>,
      <<<<"v","d">>, "U+010F">>, <<<<"v","e">>, "U+011B">>, <<<<"v","g">>, "U+01E7">>,
      <<<<"v","h">>, "U+021F">>, <<<<"v","i">>, "U+01D0">>, <<<<"v","k">>, "U+01E9">>,
      <<<<"v","l">>, "U+013E">>, <<<<"v","n">>, "U+0148">>, <<<<"v","o">>, "U+01D2">>,
      <<<<"v","r">>, "U+0159">>, <<<<"v","s">>, "U+0161">>, <<<<"v","t">>, "U+0165">>,
      <<<<"v","u">>, "U+01D4">>, <<<<"v","z">>, "U+017E">> }

textlet ==
    { <<<<"A","A">>, "U+00C5">>, <<<<"A","E">>, "U+00C6">>, <<<<"D","H">>, "U+00D0">>,
      <<<<"D","J">>, "U+0110">>, <<<<"E","T","H">>, "U+00D0">>, <<<<"L">>, "U+0141">>,
      <<<<"N","G">>, "U+014A">>, <<<<"O">>, "U+00D8">>, <<<<"o","e">>, "U+0153">>,
      <<<<"O","E">>, "U+0152">>, <<<<"T","H">>, "U+00DE">>, <<<<"a","a">>, "U+00E5">>,
      <<<<"a","e">>, "U+00E6">>, <<<<"d","h">>, "U+00F0">>, <<<<"d","j">>, "U+0111">>,
      <<<<"e","t","h">>, "U+00F0">>, <<<<"i">>, "U+0131">>, <<<<"l">>, "U+0142">>,
      <<<<"n","g">>, "U+014B">>, <<<<"o">>, "U+00F8">>, <<<<"s","s">>, "U+00DF">>,
      <<<<"t","h">>, "U+00FE">> }

textgreek ==
    { <<<<"G","a","m","m","a">>, "U+0393">>, <<<<"D","e","l","t","a">>, "U+0394">>,
      <<<<"T","h","e","t","a">>, "U+0398">>, <<<<"L","a","m","b","d","a">>, "U+039B">>,
      <<<<"X","i">>, "U+039E">>, <<<<"P","i">>, "U+03A0">>,
      <<<<"S","i","g","m","a">>, "U+03A3">>, <<<<"U","p","s","i","l","o","n">>, "U+03A5">>,
      <<<<"P","h","i">>, "U+03A6">>, <<<<"P","s","i">>, "U+03A8">>,
      <<<<"O","m","e","g","a">>, "U+03A9">>, <<<<"a","l","p","h","a">>, "U+03B1">>,
      <<<<"b","e","t","a">>, "U+03B2">>, <<<<"g","a","m","m","a">>, "U+03B3">>,
      <<<<"d","e","l","t","a">>, "U+03B4">>, <<<<"e","p","s","i","l","o","n">>, "U+03B5">>,
      <<<<"z","e","t","a">>, "U+03B6">>, <<<<"e","t","a">>, "U+03B7">>,
      <<<<"t","h","e","t","a">>, "U+03B8">>, <<<<"i","o","t","a">>, "U+03B9">>,
      <<<<"k","a","p","p","a">>, "U+03BA">>, <<<<"l","a","m","b","d","a">>, "U+03BB">>,
      <<<<"m","u">>, "U+03BC">>, <<<<"n","u">>, "U+03BD">>,
      <<<<"x","i">>, "U+03BE">>, <<<<"o","m","i","c","r","o","n">>, "U+03BF">>,
      <<<<"p","i">>, "U+03C0">>, <<<<"r","h","o">>, "U+03C1">>,
      <<<<"v","a","r","s","i","g","m","a">>, "U+03C2">>, <<<<"s","i","g","m","a">>, "U+03C3">>,
      <<<<"t","a","u">>, "U+03C4">>, <<<<"u","p","s","i","o","n">>, "U+03C5">>,
      <<<<"v","a","r","p","h","i">>, "U+03C6">>, <<<<"p","h","i">>, "U+03D5">>,
      <<<<"c","h","i">>, "U+03C7">>, <<<<"p","s","i">>, "U+03C8">>,
      <<<<"o","m","e","g","a">>, "U+03C9">> }

textsym ==
    { <<<<"P">>, "U+00B6">>, <<<<"S">>, "U+00A7">>,
      <<<<"c","o","p","y","r","i","g","h","t">>, "U+00A9">>, <<<<"g","u","i","l","l","e","m","o","t","l","e","f","t">>, "U+00AB">>,
      <<<<"g","u","i","l","l","e","m","o","t","r","i","g","h","t">>, "U+00BB">>, <<<<"p","o","u","n","d","s">>, "U+00A3">>,
      <<<<"d","a","g">>, "U+2020">>, <<<<"d","d","a","g">>, "U+2021">>,
      <<<<"d","i","v">>, "U+00F7">>, <<<<"d","e","g">>, "U+00B0">> }

\* the keys of a table
Keys(T) == { p[1] : p \in T }

\* chr(T[key])
chr(T, key) == (CHOOSE p \in T : p[1] = key)[2]

\* the characters of the tables that are letters; those of textsym are
\* symbols, which \w does not match
LetterCodes == { p[2] : p \in accents \cup textlet \cup textgreek }

\* \w
IsWordChar(c) ==
    c \in LowerSet \cup UpperSet \cup DigitSet \cup {"_"} \/ c \in LetterCodes

\* (\b|(?=_)) at position q, after a key: the end of the string, a
\* character that is not a word character, or an underscore
Boundary(s, q) == q > Len(s) \/ ~IsWordChar(s[q]) \/ s[q] = "_"

\* the pattern of _p_to_match,
\*   ({)?\\(key|...)(\b|(?=_))(?(1)}|(\\(?= )| |{}|)?)
\* matched at position i of s: the index after the match and the key, or
\* end 0 when there is no match at i
PMatch(T, s, i) ==
    LET open  == s[i] = "{"
        p     == IF open THEN i + 1 ELSE i
        ks    == { K \in Keys(T) : /\ p <= Len(s)
                                   /\ s[p] = "\\"
                                   /\ At(s, p + 1, K)
                                   /\ Boundary(s, p + 1 + Len(K))
                                   /\ open => At(s, p + 1 + Len(K), <<"}">>) }
    IN  IF ks = {} THEN [end |-> 0, key |-> <<>>]
        ELSE LET K == CHOOSE k \in ks : TRUE
                 e == p + 1 + Len(K)
             IN  [key |-> K,
                  end |-> IF open THEN e + 1
                          ELSE IF At(s, e, <<"\\", " ">>) THEN e + 1
                          ELSE IF At(s, e, <<" ">>) THEN e + 1
                          ELSE IF At(s, e, <<"{", "}">>) THEN e + 2
                          ELSE e]

\* pattern.sub(lambda match: chr(T[match.group(2)]), s), from position i
RECURSIVE PSub(_, _, _)
PSub(T, s, i) ==
    IF i > Len(s) THEN <<>>
    ELSE LET m == PMatch(T, s, i)
         IN  IF m.end > 0
             THEN <<chr(T, m.key)>> \o PSub(T, s, m.end)
             ELSE <<s[i]>> \o PSub(T, s, i + 1)

_textlet_sub(s) == PSub(textlet, s, 1)

_textgreek_sub(s) == PSub(textgreek, s, 1)

_textsym_sub(s) == PSub(textsym, s, 1)

\* the accent marks of the patterns of lines 866, 883 and 887
AccentMarks == {"'", "grave", "^", "\"", "~", "=", "."}

\* /(\\[<accent marks>uvH])\{\\([ij])\} at position i: the index after the
\* match, or 0
DotlessEnd(s, i) ==
    IF /\ i + 6 <= Len(s)
       /\ s[i] = "/"
       /\ s[i + 1] = "\\"
       /\ s[i + 2] \in AccentMarks \cup {"u", "v", "H"}
       /\ s[i + 3] = "{"
       /\ s[i + 4] = "\\"
       /\ s[i + 5] \in {"i", "j"}
       /\ s[i + 6] = "}"
    THEN i + 7 ELSE 0

\* line 866: the replacement is \g<1>\{\g<2>\}
RECURSIVE DotlessSub(_, _)
DotlessSub(s, i) ==
    IF i > Len(s) THEN <<>>
    ELSE IF DotlessEnd(s, i) > 0
         THEN <<"\\", s[i + 2], "\\", "{", s[i + 5], "\\", "}">>
              \o DotlessSub(s, i + 7)
         ELSE <<s[i]>> \o DotlessSub(s, i + 1)

\* \{\\j\}|\\j\s at position i: the index after the match, or 0
DotlessJEnd(s, i) ==
    IF At(s, i, <<"{", "\\", "j", "}">>) THEN i + 4
    ELSE IF At(s, i, <<"\\", "j">>) /\ i + 2 <= Len(s) /\ IsSpace(s[i + 2])
         THEN i + 3
         ELSE 0

\* line 876
RECURSIVE DotlessJSub(_, _)
DotlessJSub(s, i) ==
    IF i > Len(s) THEN <<>>
    ELSE IF DotlessJEnd(s, i) > 0
         THEN <<"j">> \o DotlessJSub(s, DotlessJEnd(s, i))
         ELSE <<s[i]>> \o DotlessJSub(s, i + 1)

\* lines 866-876: what tex2utf does before the double-brace loop
BeforeBraces(t, g) ==
    LET a == DotlessSub(t, 1)
        b == _textlet_sub(a)
        c == IF g THEN _textgreek_sub(b) ELSE b
        d == _textsym_sub(c)
    IN  DotlessJSub(d, 1)

\* first position >= i of s holding '}' (Len(s)+1 if none): [^\}]*
RECURSIVE SkipNoBrace(_, _)
SkipNoBrace(s, i) ==
    IF i <= Len(s) /\ s[i] # "}" THEN SkipNoBrace(s, i + 1) ELSE i

\* \{\{([^\}]*)\}\} at position i: the index after the match, or 0
BraceEnd(s, i) ==
    IF At(s, i, <<"{", "{">>) /\ At(s, SkipNoBrace(s, i + 2), <<"}", "}">>)
    THEN SkipNoBrace(s, i + 2) + 2 ELSE 0

\* re.search(r'\{\{([^\}]*)\}\}', utf)
BraceSearch(s) == \E i \in 1..Len(s) : BraceEnd(s, i) > 0

\* the substitution without a replacement: every match is written back
RECURSIVE BraceSubKeep(_, _)
BraceSubKeep(s, i) ==
    IF i > Len(s) THEN <<>>
    ELSE LET e == BraceEnd(s, i)
         IN  IF e > 0
             THEN SubSeq(s, i, e - 1) \o BraceSubKeep(s, e)
             ELSE <<s[i]>> \o BraceSubKeep(s, i + 1)

\* line 880: re.sub(r'\{\{([^\}]*)\}\}', r'{\g<1>}', utf), from position i
RECURSIVE BraceSub(_, _)
BraceSub(s, i) ==
    IF i > Len(s) THEN <<>>
    ELSE LET e == BraceEnd(s, i)
         IN  IF e > 0
             THEN <<"{">> \o SubSeq(s, i + 2, e - 3) \o <<"}">> \o BraceSub(s, e)
             ELSE <<s[i]>> \o BraceSub(s, i + 1)

\* the loop as a single conditional pass
BraceOnce(s) == IF BraceSearch(s) THEN BraceSub(s, 1) ELSE s

\* lines 879-880: the loop
RECURSIVE BraceLoop(_)
BraceLoop(s) == IF BraceSearch(s) THEN BraceLoop(BraceSub(s, 1)) ELSE s

\* texch2UTF without its fallback: an unknown accent is kept as it is
texch2UTFKeep(acc) ==
    IF acc \in Keys(accents) THEN <<chr(accents, acc)>>
    ELSE acc

\* texch2UTF: the accented character, or the argument without the
\* characters that are not word characters
texch2UTF(acc) ==
    IF acc \in Keys(accents) THEN <<chr(accents, acc)>>
    ELSE SelectSeq(acc, IsWordChar)

\* line 883: \\([<accent marks>][a-zA-Z])
RECURSIVE AccentSub(_, _)
AccentSub(s, i) ==
    IF i > Len(s) THEN <<>>
    ELSE IF /\ i + 2 <= Len(s)
            /\ s[i] = "\\"
            /\ s[i + 1] \in AccentMarks
            /\ IsLetter(s[i + 2])
         THEN texch2UTF(<<s[i + 1], s[i + 2]>>) \o AccentSub(s, i + 3)
         ELSE <<s[i]>> \o AccentSub(s, i + 1)

\* lines 887 and 892: \\(<one of marks>)\{([a-zA-Z])\}
RECURSIVE BracedAccentSub(_, _, _)
BracedAccentSub(marks, s, i) ==
    IF i > Len(s) THEN <<>>
    ELSE IF /\ i + 4 <= Len(s)
            /\ s[i] = "\\"
            /\ s[i + 1] \in marks
            /\ s[i + 2] = "{"
            /\ IsLetter(s[i + 3])
            /\ s[i + 4] = "}"
         THEN texch2UTF(<<s[i + 1], s[i + 3]>>) \o BracedAccentSub(marks, s, i + 5)
         ELSE <<s[i]>> \o BracedAccentSub(marks, s, i + 1)

\* \\t{([^\}])\} at position i: the index after the match, or 0
TieEnd(s, i) ==
    IF /\ At(s, i, <<"\\", "t", "{">>)
       /\ i + 4 <= Len(s)
       /\ s[i + 3] # "}"
       /\ s[i + 4] = "}"
    THEN i + 5 ELSE 0

\* line 896: the replacement is the character between the braces
RECURSIVE TieSub(_, _)
TieSub(s, i) ==
    IF i > Len(s) THEN <<>>
    ELSE LET e == TieEnd(s, i)
         IN  IF e > 0
             THEN <<s[e - 2]>> \o TieSub(s, e)
             ELSE <<s[i]>> \o TieSub(s, i + 1)

\* lines 883-901: what tex2utf does after the double-brace loop
AfterBraces(s) ==
    LET a == AccentSub(s, 1)
        b == BracedAccentSub(AccentMarks, a, 1)
        c == BracedAccentSub({"H", "c", "k", "o", "r", "u", "v"}, b, 1)
    IN  TieSub(c, 1)

tex2utf(t, g) == AfterBraces(BraceLoop(BeforeBraces(t, g)))

-----------------------------------------------------------------------------
(* tex2utf as a state machine                                              *)

\* the longest argument of tex2utf, in pieces
MaxTexPieces == 3

\* the pieces the arguments of tex2utf are made of
TexPieces ==
    { <<"\\", "o">>, <<"\\", "a", "l", "p", "h", "a">>, <<"\\", "'">>,
      <<"\\", "v">>, <<"\\", "t">>, <<"\\", "x", "y", "z">>,
      <<"{">>, <<"}">>, <<"{", "{">>, <<"}", "}">>, <<"{", "e", "}">>,
      <<"{", "x", "}">>, <<"e">>, <<"x">>, <<" ">>, <<"1">>,
      <<"/">>, <<"{", "\\", "i", "}">> }

InitTex ==
    /\ pc = "tex"
    /\ tex \in LinesOf(TexPieces, MaxTexPieces)
    /\ greek \in BOOLEAN
    /\ utf = <<>>
    /\ iters = 0
    /\ authors = <<>> /\ Idle /\ MergeIdle /\ OaiIdle

\* lines 866-876
TexLetters ==
    /\ pc = "tex"
    /\ utf' = BeforeBraces(tex, greek)
    /\ pc' = "braces"
    /\ UNCHANGED <<tex, greek, iters>>
    /\ UNCHANGED <<authors, blocks, listx, parts, names, author_list,
                   back_prop, enumaffils, split_list, x, last_affil>>
    /\ UNCHANGED <<mergeVars, oaiVars>>

\* lines 879-880: one turn of the loop
BraceTurn ==
    /\ pc = "braces"
    /\ BraceSearch(utf)
    /\ utf' = BraceSub(utf, 1)
    /\ iters' = iters + 1
    /\ UNCHANGED <<tex, greek>>
    /\ UNCHANGED authorVars
    /\ UNCHANGED <<mergeVars, oaiVars>>

\* line 879: the loop ends
BraceExit ==
    /\ pc = "braces"
    /\ ~BraceSearch(utf)
    /\ pc' = "accents"
    /\ UNCHANGED <<tex, greek, utf, iters>>
    /\ UNCHANGED <<authors, blocks, listx, parts, names, author_list,
                   back_prop, enumaffils, split_list, x, last_affil>>
    /\ UNCHANGED <<mergeVars, oaiVars>>

\* lines 883-901
TexAccents ==
    /\ pc = "accents"
    /\ utf' = AfterBraces(utf)
    /\ pc' = "tex_done"
    /\ UNCHANGED <<tex, greek, iters>>
    /\ UNCHANGED <<authors, blocks, listx, parts, names, author_list,
                   back_prop, enumaffils, split_list, x, last_affil>>
    /\ UNCHANGED <<mergeVars, oaiVars>>

NextTex == TexLetters \/ BraceTurn \/ BraceExit \/ TexAccents

SpecTex == InitTex /\ [][NextTex]_vars

\* the longest argument of tex2utf in the specification of its loop, in
\* pieces
MaxBracePieces == 3

\* the pieces of these arguments: braces, single and doubled, and a letter,
\* bare and in braces
BracePieces ==
    { <<"{">>, <<"}">>, <<"{", "{">>, <<"}", "}">>, <<"e">>, <<"{", "e", "}">> }

InitBraces ==
    /\ pc = "tex"
    /\ tex \in LinesOf(BracePieces, MaxBracePieces)
    /\ greek \in BOOLEAN
    /\ utf = <<>>
    /\ iters = 0
    /\ authors = <<>> /\ Idle /\ MergeIdle /\ OaiIdle

\* tex2utf over arguments of braces; a turn of the loop of lines 879-880
\* that can be taken is not delayed for ever
SpecTexFair == InitBraces /\ [][NextTex]_vars /\ WF_vars(BraceTurn \/ BraceExit)

-----------------------------------------------------------------------------
(* Properties of tex2utf                                                   *)

IsAlnum(c) == c \in LowerSet \cup UpperSet \cup DigitSet

\* a backslash and a word of letters and digits that is a key of no table
UnknownEscape(t) ==
    /\ Len(t) >= 2
    /\ t[1] = "\\"
    /\ \A i \in 2..Len(t) : IsAlnum(t[i])
    /\ Tail(t) \notin Keys(textlet \cup textgreek \cup textsym)

\* an accent escape \<mark><letter> whose pair is not in accents
UnknownAccent(t) ==
    /\ Len(t) = 3
    /\ t[1] = "\\" /\ t[2] \in AccentMarks /\ IsLetter(t[3])
    /\ <<t[2], t[3]>> \notin Keys(accents)

\* an accent escape \<mark>{<letter>} whose pair is not in accents
UnknownBracedAccent(t, marks) ==
    /\ Len(t) = 5
    /\ t[1] = "\\" /\ t[2] \in marks /\ t[3] = "{" /\ IsLetter(t[4]) /\ t[5] = "}"
    /\ <<t[2], t[4]>> \notin Keys(accents)

NoBackslash(t) == \A i \in 1..Len(t) : t[i] # "\\"

\* C13: tex2utf is idempotent on text without a backslash: the result of
\* tex2utf(x) is left unchanged by a second application, for both values of
\* the greek flag.
C13_Idempotent ==
    (pc = "tex_done" /\ NoBackslash(tex)) =>
        /\ utf = tex2utf(tex, greek)
        /\ \A g \in BOOLEAN : tex2utf(tex2utf(tex, greek), g) = tex2utf(tex, greek)

\* text without a backslash that the first application changed, in two
\* turns of the double-brace loop
C13_Witness ==
    /\ pc = "tex_done"
    /\ NoBackslash(tex)
    /\ utf # tex
    /\ iters >= 2

\* C14: the double-brace loop of tex2utf terminates: every turn makes the
\* string strictly shorter, so the turns taken and the length left never
\* exceed the length the string had when the loop was entered; when the
\* loop is left the string holds no {{x}} with x free of closing braces;
\* and a loop that was entered is left.
C14_BraceLoopTerminates ==
    /\ [][(pc = "braces" /\ pc' = "braces") => Len(utf') < Len(utf)]_vars
    /\ [](pc = "braces" => iters + Len(utf) <= Len(BeforeBraces(tex, greek)))
    /\ [](pc = "accents" => ~BraceSearch(utf))
    /\ (pc = "braces") ~> (pc = "accents")

\* the loop was left after two turns or more
C14_Witness ==
    /\ pc = "accents"
    /\ iters >= 2
    /\ ~BraceSearch(utf)

-----------------------------------------------------------------------------
(* merge_files and check_merged_then_overwrite_original                    *)

\* the printable characters in the order of their code points, which is
\* the order Python compares the characters of a str in
Ascii ==
    << " ", "!", "\"", "#", "$", "%", "&", "'", "(", ")", "*", "+",
       ",", "-", ".", "/", "0", "1", "2", "3", "4", "5", "6", "7",
       "8", "9", ":", ";", "<", "=", ">", "?", "@", "A", "B", "C",
       "D", "E", "F", "G", "H", "I", "J", "K", "L", "M", "N", "O",
       "P", "Q", "R", "S", "T", "U", "V", "W", "X", "Y", "Z", "[",
       "\\", "]", "^", "_", "a", "b", "c", "d", "e", "f", "g", "h",
       "i", "j", "k", "l", "m", "n", "o", "p", "q", "r", "s", "t",
       "u", "v", "w", "x", "y", "z", "{", "|", "}", "~" >>

ord(c) == CHOOSE i \in 1..Len(Ascii) : Ascii[i] = c

\* a < b on str
RECURSIVE StrLess(_, _)
StrLess(a, b) ==
    IF b = <<>> THEN FALSE
    ELSE IF a = <<>> THEN TRUE
    ELSE IF a[1] = b[1] THEN StrLess(Tail(a), Tail(b))
    ELSE ord(a[1]) < ord(b[1])

\* s.find('"', 7), as a 1-based position (0 for Python's -1)
RECURSIVE FindQuote(_, _)
FindQuote(s, i) ==
    IF i > Len(s) THEN 0
    ELSE IF s[i] = "\"" THEN i
    ELSE FindQuote(s, i + 1)

\* s[7 : s.find('"', 7)]
get_json_paper_id(s) ==
    LET q == FindQuote(s, 8)
    IN  IF q = 0 THEN SubSeq(s, 8, Len(s) - 1) ELSE SubSeq(s, 8, q - 1)

\* file.readline() after pos lines were read: the next line, '' at the end
readline(file, pos) == IF pos < Len(file) THEN file[pos + 1] ELSE <<>>

\* the position of the file after that readline()
advance(file, pos) == IF pos < Len(file) THEN pos + 1 ELSE pos

\* the branches of the loop with the updates file never preferred: on equal
\* ids the line of the main file is written
MergeChoiceKeepOld(jid, sid) ==
    IF jid = <<>>
    THEN [write_json |-> FALSE, write_sorted |-> TRUE,
          advance_json |-> FALSE, advance_sorted |-> TRUE]
    ELSE IF sid = <<>>
    THEN [write_json |-> TRUE, write_sorted |-> FALSE,
          advance_json |-> TRUE, advance_sorted |-> FALSE]
    ELSE IF StrLess(jid, sid)
    THEN [write_json |-> TRUE, write_sorted |-> FALSE,
          advance_json |-> TRUE, advance_sorted |-> FALSE]
    ELSE IF jid = sid
    THEN [write_json |-> TRUE, write_sorted |-> FALSE,
          advance_json |-> TRUE, advance_sorted |-> TRUE]
    ELSE IF StrLess(sid, jid)
    THEN [write_json |-> FALSE, write_sorted |-> TRUE,
          advance_json |-> FALSE, advance_sorted |-> TRUE]
    ELSE [write_json |-> FALSE, write_sorted |-> FALSE,
          advance_json |-> FALSE, advance_sorted |-> FALSE]

\* lines 203-241: the four flags one turn of the loop sets
MergeChoice(jid, sid) ==
    IF jid = <<>>
    THEN [write_json |-> FALSE, write_sorted |-> TRUE,
          advance_json |-> FALSE, advance_sorted |-> TRUE]
    ELSE IF sid = <<>>
    THEN [write_json |-> TRUE, write_sorted |-> FALSE,
          advance_json |-> TRUE, advance_sorted |-> FALSE]
    ELSE IF StrLess(jid, sid)
    THEN [write_json |-> TRUE, write_sorted |-> FALSE,
          advance_json |-> TRUE, advance_sorted |-> FALSE]
    ELSE IF jid = sid
    THEN [write_json |-> FALSE, write_sorted |-> TRUE,
          advance_json |-> TRUE, advance_sorted |-> TRUE]
    ELSE IF StrLess(sid, jid)
    THEN [write_json |-> FALSE, write_sorted |-> TRUE,
          advance_json |-> FALSE, advance_sorted |-> TRUE]
    ELSE [write_json |-> FALSE, write_sorted |-> FALSE,
          advance_json |-> FALSE, advance_sorted |-> FALSE]

\* line 102 with <= for <
ShouldMoveOrEqual(json_lines, tmp_merged_lines) == json_lines <= tmp_merged_lines

\* line 102: json_lines < tmp_merged_lines
ShouldMove(json_lines, tmp_merged_lines) == json_lines < tmp_merged_lines

\* the most lines of a file
MaxLines == 3

\* the paper ids of the files
PaperIds == { <<"1">>, <<"1", "0">>, <<"c", "s", "/", "1">> }

\* a line of a file: json without whitespace that begins with the key "id";
\* v stands for the rest of the metadata
JsonLine(id, v) ==
    <<"{", "\"", "i", "d", "\"", ":", "\"">> \o id
    \o <<"\"", ",", "\"", "v", "\"", ":", "\"", v, "\"", "}", "\n">>

\* the lines of the main file, and those of the updates file, which hold
\* the same metadata or newer
MainLines == { JsonLine(id, "a") : id \in PaperIds }

UpdateLines == { JsonLine(id, v) : id \in PaperIds, v \in {"a", "b"} }

FilesOf(L) == UNION { [1..n -> L] : n \in 0..MaxLines }

InitMerge ==
    /\ pc = "merge"
    /\ json_file \in FilesOf(MainLines)
    /\ tmp_sorted_file \in FilesOf(UpdateLines)
    /\ tmp_merged_file = <<>>
    /\ json_pos = 0 /\ sorted_pos = 0
    /\ json_string = <<>> /\ tmp_sorted_string = <<>>
    /\ json_paper_id = <<>> /\ tmp_sorted_paper_id = <<>>
    /\ moved = FALSE
    /\ authors = <<>> /\ Idle /\ TexIdle /\ OaiIdle

\* lines 184-199: the files are opened, the merged file is created empty
\* and the first line of each input is read
MergeOpen ==
    /\ pc = "merge"
    /\ tmp_merged_file' = <<>>
    /\ json_string' = readline(json_file, 0)
    /\ json_paper_id' = get_json_paper_id(readline(json_file, 0))
    /\ json_pos' = advance(json_file, 0)
    /\ tmp_sorted_string' = readline(tmp_sorted_file, 0)
    /\ tmp_sorted_paper_id' = get_json_paper_id(readline(tmp_sorted_file, 0))
    /\ sorted_pos' = advance(tmp_sorted_file, 0)
    /\ pc' = "merging"
    /\ UNCHANGED <<json_file, tmp_sorted_file, moved>>
    /\ UNCHANGED <<authors, blocks, listx, parts, names, author_list,
                   back_prop, enumaffils, split_list, x, last_affil>>
    /\ UNCHANGED <<texVars, oaiVars>>

\* lines 202-257: one turn of the loop
MergeTurn ==
    /\ pc = "merging"
    /\ json_paper_id # <<>> \/ tmp_sorted_paper_id # <<>>
    /\ LET f == MergeChoice(json_paper_id, tmp_sorted_paper_id)
           w == (IF f.write_json THEN <<json_string>> ELSE <<>>)
                \o (IF f.write_sorted THEN <<tmp_sorted_string>> ELSE <<>>)
       IN  /\ tmp_merged_file' = tmp_merged_file \o w
           /\ IF f.advance_json
              THEN /\ json_string' = readline(json_file, json_pos)
                   /\ json_paper_id' =
                          get_json_paper_id(readline(json_file, json_pos))
                   /\ json_pos' = advance(json_file, json_pos)
              ELSE UNCHANGED <<json_string, json_paper_id, json_pos>>
           /\ IF f.advance_sorted
              THEN /\ tmp_sorted_string' = readline(tmp_sorted_file, sorted_pos)
                   /\ tmp_sorted_paper_id' =
                          get_json_paper_id(readline(tmp_sorted_file, sorted_pos))
                   /\ sorted_pos' = advance(tmp_sorted_file, sorted_pos)
              ELSE UNCHANGED <<tmp_sorted_string, tmp_sorted_paper_id, sorted_pos>>
    /\ UNCHANGED <<pc, json_file, tmp_sorted_file, moved>>
    /\ UNCHANGED authorVars
    /\ UNCHANGED <<texVars, oaiVars>>

\* lines 202 and 260-269: the loop ends and the files are closed
MergeClose ==
    /\ pc = "merging"
    /\ json_paper_id = <<>>
    /\ tmp_sorted_paper_id = <<>>
    /\ pc' = "merged"
    /\ UNCHANGED mergeVars
    /\ UNCHANGED <<authors, blocks, listx, parts, names, author_list,
                   back_prop, enumaffils, split_list, x, last_affil>>
    /\ UNCHANGED <<texVars, oaiVars>>

\* check_merged_then_overwrite_original (lines 91-105): move() puts the
\* merged file in the place of the main file, and the merged file is gone
check_merged_then_overwrite_original ==
    /\ pc = "merged"
    /\ IF ShouldMove(Len(json_file), Len(tmp_merged_file))
       THEN /\ json_file' = tmp_merged_file
            /\ tmp_merged_file' = <<>>
            /\ moved' = TRUE
       ELSE UNCHANGED <<json_file, tmp_merged_file, moved>>
    /\ pc' = "checked"
    /\ UNCHANGED <<tmp_sorted_file, json_pos, sorted_pos, json_string,
                   tmp_sorted_string, json_paper_id, tmp_sorted_paper_id>>
    /\ UNCHANGED <<authors, blocks, listx, parts, names, author_list,
                   back_prop, enumaffils, split_list, x, last_affil>>
    /\ UNCHANGED <<texVars, oaiVars>>

NextMerge ==
    \/ MergeOpen
    \/ MergeTurn
    \/ MergeClose
    \/ check_merged_then_overwrite_original

SpecMerge == InitMerge /\ [][NextMerge]_vars

\* check_merged_then_overwrite_original on any two files
InitOverwrite ==
    /\ pc = "merged"
    /\ json_file \in FilesOf(MainLines)
    /\ tmp_sorted_file = <<>>
    /\ tmp_merged_file \in FilesOf(UpdateLines)
    /\ json_pos = 0 /\ sorted_pos = 0
    /\ json_string = <<>> /\ tmp_sorted_string = <<>>
    /\ json_paper_id = <<>> /\ tmp_sorted_paper_id = <<>>
    /\ moved = FALSE
    /\ authors = <<>> /\ Idle /\ TexIdle /\ OaiIdle

NextOverwrite == check_merged_then_overwrite_original

SpecOverwrite == InitOverwrite /\ [][NextOverwrite]_vars

-----------------------------------------------------------------------------
(* Properties of merge_files and check_merged_then_overwrite_original      *)

\* the paper ids of the lines of a file
IdsOf(f) == { get_json_paper_id(f[i]) : i \in 1..Len(f) }

\* strictly sorted by paper id, in the order of the comparison of line 219
StrictlySorted(f) ==
    \A i \in 1..(Len(f) - 1) :
        StrLess(get_json_paper_id(f[i]), get_json_paper_id(f[i + 1]))

\* the lines of an input still to be merged: the line held and those not
\* yet read
Remaining(file, pos, id) == (Len(file) - pos) + (IF id # <<>> THEN 1 ELSE 0)

\* C15: merge_files is a merge-join: when both inputs are strictly sorted by
\* paper id, the merged file is strictly sorted by paper id, holds exactly
\* the ids of both inputs, takes the line of the updates file for an id of
\* both files and the only line there is otherwise; every turn of the loop
\* consumes a line of an input, and the loop ends with both inputs
\* exhausted, an empty input included.
C15_MergeJoin ==
    /\ [](( /\ pc = "merged"
            /\ StrictlySorted(json_file)
            /\ StrictlySorted(tmp_sorted_file) ) =>
           /\ StrictlySorted(tmp_merged_file)
           /\ IdsOf(tmp_merged_file) = IdsOf(json_file) \cup IdsOf(tmp_sorted_file)
           /\ \A i \in 1..Len(tmp_merged_file) :
                 LET l == tmp_merged_file[i]
                 IN  IF get_json_paper_id(l) \in IdsOf(tmp_sorted_file)
                     THEN \E k \in 1..Len(tmp_sorted_file) : tmp_sorted_file[k] = l
                     ELSE \E k \in 1..Len(json_file) : json_file[k] = l)
    /\ [](pc = "merged" =>
           /\ Remaining(json_file, json_pos, json_paper_id) = 0
           /\ Remaining(tmp_sorted_file, sorted_pos, tmp_sorted_paper_id) = 0)
    /\ [][(pc = "merging" /\ pc' = "merging") =>
            Remaining(json_file, json_pos, json_paper_id)'
              + Remaining(tmp_sorted_file, sorted_pos, tmp_sorted_paper_id)'
            < Remaining(json_file, json_pos, json_paper_id)
              + Remaining(tmp_sorted_file, sorted_pos, tmp_sorted_paper_id)]_vars

\* sorted inputs with a paper of the main file only, a paper of the updates
\* only and a paper of both whose line the updates changed
C15_Witness ==
    /\ pc = "merged"
    /\ StrictlySorted(json_file)
    /\ StrictlySorted(tmp_sorted_file)
    /\ IdsOf(json_file) \ IdsOf(tmp_sorted_file) # {}
    /\ IdsOf(tmp_sorted_file) \ IdsOf(json_file) # {}
    /\ \E i \in 1..Len(json_file), k \in 1..Len(tmp_sorted_file) :
          /\ get_json_paper_id(json_file[i]) = get_json_paper_id(tmp_sorted_file[k])
          /\ json_file[i] # tmp_sorted_file[k]
    /\ Len(tmp_merged_file) = 3

\* C18: check_merged_then_overwrite_original puts the merged file in the
\* place of the main file if and only if the merged file has strictly more
\* lines; otherwise the main file is left as it is, so a merged file with
\* fewer or as many lines never replaces it.
C18_OverwriteOnlyIfLonger ==
    [][(pc = "merged" /\ pc' = "checked") =>
         IF Len(json_file) < Len(tmp_merged_file)
         THEN moved' /\ json_file' = tmp_merged_file
         ELSE ~moved' /\ json_file' = json_file
                      /\ tmp_merged_file' = tmp_merged_file]_vars

\* a merged file of as many lines as the main file, with other content,
\* that did not reach the main file
C18_Witness ==
    /\ pc = "checked"
    /\ ~moved
    /\ Len(json_file) >= 1
    /\ Len(tmp_merged_file) = Len(json_file)
    /\ tmp_merged_file # json_file

-----------------------------------------------------------------------------
(* download_updates, get_listrecord_chunk and                              *)
(* parse_and_save_listrecord_as_json                                       *)

\* a str or None counts as true in a condition: neither None nor ''.  A
\* str t is written <<t>>, None is written <<>>
Truthy(t) == t # None /\ t[1] # ""

\* lines 311-312: the text of the resumptionToken element of the response,
\* None when the element is missing or empty
next_resumption_token(body) ==
    IF body.resumptionToken = None THEN None
    ELSE IF body.resumptionToken[1] = "" THEN None
    ELSE body.resumptionToken

\* every chunk truncates the file
ModeAlwaysWrite(resumption) == "w"

\* line 276: mode = 'a' if resumption_token else 'w'
Mode(resumption) == IF Truthy(resumption) THEN "a" ELSE "w"

\* lines 277-309: the file after the records of the response are printed
Saved(file, body, resumption) ==
    (IF Mode(resumption) = "a" THEN file ELSE <<>>) \o body.records

\* line 155: int(response.headers.get('Retry-After', 20)) * 1.5, in half
\* seconds
RetrySecs(r) == 3 * (IF r.retry_after = None THEN 20 ELSE r.retry_after[1])

\* the most requests of a run
MaxRequests == 3

\* the records a response may list and the resumptionToken element it may
\* carry: none, an empty one, or one with a token
RecordRuns == { <<>>, <<"p">>, <<"q">> }

TokenElements == { None, <<"">>, <<"t1">>, <<"t2">> }

\* the responses of the server: a chunk, a request to wait, a failure
Responses ==
    { [status_code |-> 200, text |-> [records |-> r, resumptionToken |-> t],
       retry_after |-> None] : r \in RecordRuns, t \in TokenElements }
    \cup { [status_code |-> 503, text |-> None, retry_after |-> a] :
             a \in {None, <<30>>} }
    \cup { [status_code |-> 404, text |-> None, retry_after |-> None] }

InitDownload ==
    /\ pc = "download"
    /\ resumption_token \in {None, <<"">>, <<"t0">>}
    /\ tmp_updates_file \in {<<>>, <<"o">>}
    /\ rt = None /\ response = None /\ xml = None
    /\ chunk_index = 0
    /\ sent = <<>> /\ received = <<>> /\ slept = <<>> /\ exception = None
    /\ authors = <<>> /\ Idle /\ TexIdle /\ MergeIdle

\* lines 114-118
download_updates ==
    /\ pc = "download"
    /\ rt' = IF Truthy(resumption_token) THEN resumption_token ELSE None
    /\ chunk_index' = 0
    /\ pc' = "request"
    /\ UNCHANGED <<resumption_token, response, xml, tmp_updates_file, sent,
                   received, slept, exception>>
    /\ UNCHANGED <<authors, blocks, listx, parts, names, author_list,
                   back_prop, enumaffils, split_list, x, last_affil>>
    /\ UNCHANGED <<texVars, mergeVars>>

\* lines 120 and 139-148: the request carries the resumption token if there
\* is one, and the server answers
get_listrecord_chunk ==
    /\ pc = "request"
    /\ Len(sent) < MaxRequests
    /\ sent' = Append(sent, IF Truthy(rt) THEN rt ELSE None)
    /\ response' \in Responses
    /\ pc' = "response"
    /\ UNCHANGED <<resumption_token, rt, xml, tmp_updates_file, chunk_index,
                   received, slept, exception>>
    /\ UNCHANGED <<authors, blocks, listx, parts, names, author_list,
                   back_prop, enumaffils, split_list, x, last_affil>>
    /\ UNCHANGED <<texVars, mergeVars>>

\* lines 150-152
Status200 ==
    /\ pc = "response"
    /\ response.status_code = 200
    /\ slept' = Append(slept, 24)
    /\ xml' = response.text
    /\ pc' = "parse"
    /\ UNCHANGED <<resumption_token, rt, response, tmp_updates_file,
                   chunk_index, sent, received, exception>>
    /\ UNCHANGED <<authors, blocks, listx, parts, names, author_list,
                   back_prop, enumaffils, split_list, x, last_affil>>
    /\ UNCHANGED <<texVars, mergeVars>>

\* lines 154-158: after the wait the function calls get_list_record_chunk,
\* a name the module does not define, and Python raises NameError
Status503 ==
    /\ pc = "response"
    /\ response.status_code = 503
    /\ slept' = Append(slept, RetrySecs(response))
    /\ exception' = <<"NameError">>
    /\ pc' = "raised"
    /\ UNCHANGED <<resumption_token, rt, response, xml, tmp_updates_file,
                   chunk_index, sent, received>>
    /\ UNCHANGED <<authors, blocks, listx, parts, names, author_list,
                   back_prop, enumaffils, split_list, x, last_affil>>
    /\ UNCHANGED <<texVars, mergeVars>>

\* lines 160-165
StatusOther ==
    /\ pc = "response"
    /\ response.status_code \notin {200, 503}
    /\ exception' = <<"Exception">>
    /\ pc' = "raised"
    /\ UNCHANGED <<resumption_token, rt, response, xml, tmp_updates_file,
                   chunk_index, sent, received, slept>>
    /\ UNCHANGED <<authors, blocks, listx, parts, names, author_list,
                   back_prop, enumaffils, split_list, x, last_affil>>
    /\ UNCHANGED <<texVars, mergeVars>>

\* lines 122-128 and 272-314: the records are saved, the next token is
\* read, and the loop goes on while there is a token
parse_and_save_listrecord_as_json ==
    /\ pc = "parse"
    /\ tmp_updates_file' = Saved(tmp_updates_file, xml, rt)
    /\ rt' = next_resumption_token(xml)
    /\ chunk_index' = chunk_index + 1
    /\ received' = Append(received, xml)
    /\ pc' = IF Truthy(next_resumption_token(xml)) THEN "request"
             ELSE "downloaded"
    /\ UNCHANGED <<resumption_token, response, xml, sent, slept, exception>>
    /\ UNCHANGED <<authors, blocks, listx, parts, names, author_list,
                   back_prop, enumaffils, split_list, x, last_affil>>
    /\ UNCHANGED <<texVars, mergeVars>>

NextDownload ==
    \/ download_updates
    \/ get_listrecord_chunk
    \/ Status200
    \/ Status503
    \/ StatusOther
    \/ parse_and_save_listrecord_as_json

SpecDownload == InitDownload /\ [][NextDownload]_vars

-----------------------------------------------------------------------------
(* Properties of the download                                              *)

\* C16: a 503 answer is waited out and the request is made again, so only a
\* status other than 200 and 503 ends get_listrecord_chunk with an
\* exception.
C16_CounterExample ==
    exception # None => response.status_code \notin {200, 503}

\* the records of the chunks, in order
RECURSIVE RecordsOf(_)
RecordsOf(chunks) ==
    IF chunks = <<>> THEN <<>>
    ELSE chunks[1].records \o RecordsOf(Tail(chunks))

\* C17: download_updates requests the chunks one after another, each
\* request carrying the token that came with the chunk before; it stops
\* exactly after the first chunk without a token (missing or empty); a
\* chunk requested without a token truncates the updates file and a chunk
\* requested with one is appended, so a run started without a token ends
\* with the records of all its chunks in the file, in order, and nothing
\* else.
C17_ChunksInOrder ==
    /\ [](/\ Len(received) <= Len(sent)
          /\ Len(sent) <= Len(received) + 1
          /\ chunk_index = Len(received)
          /\ \A k \in 2..Len(sent) :
                /\ Truthy(sent[k])
                /\ sent[k] = next_resumption_token(received[k - 1])
          /\ \A k \in 1..(Len(received) - 1) :
                Truthy(next_resumption_token(received[k]))
          /\ (pc = "downloaded") <=>
                 /\ received # <<>>
                 /\ ~Truthy(next_resumption_token(received[Len(received)]))
          /\ (sent # <<>> /\ sent[1] = None) =>
                 (received # <<>> => tmp_updates_file = RecordsOf(received)))
    /\ [][tmp_updates_file' # tmp_updates_file =>
            /\ pc = "parse"
            /\ tmp_updates_file' =
                 (IF Truthy(sent[Len(sent)]) THEN tmp_updates_file ELSE <<>>)
                 \o xml.records]_vars

\* a run started without a token that took three chunks and kept the
\* records of all of them
C17_Witness ==
    /\ pc = "downloaded"
    /\ sent[1] = None
    /\ Len(received) = 3
    /\ Len(tmp_updates_file) = 3
    /\ tmp_updates_file = RecordsOf(received)

====
